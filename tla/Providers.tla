----------------------------- MODULE Providers -----------------------------
(***************************************************************************)
(* Which vendor and which model an agent calls (agent/providers).          *)
(*                                                                         *)
(* An environment e holds what the .env file sets: LLM_PROVIDER,           *)
(* LLM_MODEL, LLM_FALLBACK_MODEL, and <ROLE>_PROVIDER and <ROLE>_MODEL for *)
(* each role; None is a variable that is not set.  e.broken are the        *)
(* vendors whose client cannot be built, for want of a key or a package.   *)
(***************************************************************************)
CONSTANTS
  Vendors,        \* the supported providers
  Models,         \* model names
  HomeOf,         \* HomeOf[m] is the vendor that serves m
  DefaultVendor,  \* DEFAULT_PROVIDER
  DefaultModel,   \* DEFAULT_MODELS
  StableModel,    \* FALLBACK_MODELS
  Misspelt,       \* a provider name that is not supported
  None            \* not set, no client

Roles == {"planner", "coder", "reviewer"}

VendorNames == Vendors \union {Misspelt, None}
ModelNames == Models \union {None}
Environments ==
  [provider : VendorNames, model : ModelNames, fallback : ModelNames,
   roleProvider : [Roles -> VendorNames], roleModel : [Roles -> ModelNames],
   broken : SUBSET Vendors]

Clients == [vendor : Vendors, model : Models]

ASSUME ProvidersAssumption ==
  /\ HomeOf \in [Models -> Vendors]
  /\ DefaultVendor \in Vendors
  /\ DefaultModel \in [Vendors -> Models]
  /\ StableModel \in [Vendors -> Models]
  /\ \A v \in Vendors : HomeOf[DefaultModel[v]] = v
                       /\ HomeOf[StableModel[v]] = v
  /\ Misspelt \notin Vendors
  /\ None \notin Vendors \union Models \union Clients \union {Misspelt}

-----------------------------------------------------------------------------
\* Python's `a or b` of two settings.
OrElse(a, b) == IF a # None THEN a ELSE b

GlobalVendor(e) == OrElse(e.provider, DefaultVendor)
VendorFor(e, role) == OrElse(e.roleProvider[role], GlobalVendor(e))

\* resolve_role raises when either name is misspelt, the global one even
\* where the role does not use it.
Resolvable(e, role) == {GlobalVendor(e), VendorFor(e, role)} \subseteq Vendors

\* Mutant: LLM_MODEL is inherited whoever the vendor is.
InheritedAlways(e, role) == e.model

\* LLM_MODEL, where it belongs to the vendor of the role.
Inherited(e, role) ==
  IF VendorFor(e, role) = GlobalVendor(e) THEN e.model ELSE None

ModelFor(e, role) ==
  OrElse(OrElse(e.roleModel[role], Inherited(e, role)),
         DefaultModel[VendorFor(e, role)])

\* get_provider raises ProviderError otherwise.
CanBuild(e, role) == Resolvable(e, role) /\ VendorFor(e, role) \notin e.broken

ClientFor(e, role) ==
  [vendor |-> VendorFor(e, role), model |-> ModelFor(e, role)]

FallbackModel(e, role) == OrElse(e.fallback, StableModel[VendorFor(e, role)])

\* get_fallback_for_role: None when it cannot be built or is the very model
\* the role is configured with.
FallbackFor(e, role) ==
  IF CanBuild(e, role) /\ FallbackModel(e, role) # ModelFor(e, role)
    THEN [vendor |-> VendorFor(e, role), model |-> FallbackModel(e, role)]
    ELSE None

-----------------------------------------------------------------------------
\* Every model name is written beside the provider it belongs to.
WellNamed(e) ==
  /\ e.model # None => HomeOf[e.model] = GlobalVendor(e)
  /\ \A role \in Roles :
       e.roleModel[role] # None =>
          HomeOf[e.roleModel[role]] = VendorFor(e, role)

\* LLM_FALLBACK_MODEL has no provider beside it and is used for every role.
FallbackFits(e, role) ==
  e.fallback # None => HomeOf[e.fallback] = VendorFor(e, role)
=============================================================================
