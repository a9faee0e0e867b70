-------------------------- MODULE UserCollections --------------------------
(***************************************************************************)
(* The three collections of each tenant, between the requests that validate *)
(* or create them (ensure_user_collections of weaviate_client/client.py)   *)
(* and the migration that recreates them while the API is stopped          *)
(* (scripts/migrate_onnx_vectors.py).                                      *)
(*                                                                         *)
(* Collections are numbered as their names sort: those of tenant 1 first,  *)
(* conversations, knowledge facts and policy in this order.  A call of the *)
(* storage may fail, with or without its effect.                           *)
(***************************************************************************)
EXTENDS Naturals, FiniteSets, FiniteSetsExt

CONSTANTS
    TenantCount,
    InsertedKinds,      \* the kinds of collection, in 0..2, in which a request inserts
    RequestThreads      \* asyncio.to_thread workers

ASSUME CollectionsAssumption == TenantCount \in Nat /\ InsertedKinds \subseteq 0..2

VARIABLES
    profile,    \* of each collection: "none", "old", "rebuilding" or "ready"
    objects,       \* the collections that hold objects
    written,    \* those in which an object was ever inserted
    api,        \* whether the backend runs
    validated,  \* _validated_collection_profiles
    ensuring,   \* each thread's request
    manifest,   \* the tenants of the exported manifest, {} without a usable one
    restarted,  \* whether the backend has run since the export
    rebuild     \* the rebuild command

collectionVars == <<profile, objects, written, api, validated, ensuring, manifest, restarted, rebuild>>
storeVars == <<profile, objects, written>>

Tenants == 1..TenantCount
TenantCollections(u) == (3 * u - 2)..(3 * u)
AllCollections == 1..(3 * TenantCount)
Existing == {c \in AllCollections : profile[c] # "none"}
NoRequest == [tenant |-> 0, step |-> "none", todo |-> {}, found |-> {}]
NoRebuild == [step |-> "none", todo |-> {}]

\* The storage as an earlier version of the backend left it.
CollectionsInit ==
    /\ \E old \in SUBSET Tenants :
         LET left == UNION {TenantCollections(u) : u \in old}
         IN /\ profile = [c \in AllCollections |-> IF c \in left THEN "old" ELSE "none"]
            /\ objects \in {{}} \cup {{c} : c \in left}
    /\ written = objects
    /\ api = FALSE
    /\ validated = {}
    /\ ensuring = [t \in RequestThreads |-> NoRequest]
    /\ manifest = {}
    /\ restarted = FALSE
    /\ rebuild = NoRebuild

------------------------------------------------------------------------------
(* ensure_user_collections, each call of the storage a step.  The loops     *)
(* take the collections of todo in their order.                             *)

At(t) == Min(ensuring[t].todo)
Loop(t, step) == ensuring[t].step = step /\ ensuring[t].todo # {}

\* The request with its next collection, of this loop or of the one after it.
NextCollection(r) ==
    LET own == TenantCollections(r.tenant)
    IN CASE r.todo # {} -> r
         [] r.todo = {} /\ r.step = "look" /\ r.found # {} -> [r EXCEPT !.step = "check", !.todo = r.found]
         [] OTHER -> [r EXCEPT !.step = "create", !.todo = own \ r.found]
Continue(t) == NextCollection([ensuring[t] EXCEPT !.todo = @ \ {At(t)}])
SetRequest(t, r) == ensuring' = [ensuring EXCEPT ![t] = r]

Ensure(t, u) ==
    /\ api /\ ensuring[t] = NoRequest
    /\ SetRequest(t, [tenant |-> u, step |-> IF u \in validated THEN "serve" ELSE "look",
                      todo |-> IF u \in validated THEN {} ELSE TenantCollections(u),
                      found |-> {}])
    /\ UNCHANGED <<storeVars, api, validated, manifest, restarted, rebuild>>

LookUp(t) ==
    /\ Loop(t, "look")
    /\ SetRequest(t, NextCollection([ensuring[t] EXCEPT !.todo = @ \ {At(t)},
                                              !.found = @ \cup ({At(t)} \cap Existing)]))
    /\ UNCHANGED <<storeVars, api, validated, manifest, restarted, rebuild>>

\* Slip: any description passes.
FaultProfileFits(c) == profile[c] # "none"

\* The schema of a collection with the profile of this version is right.
ProfileFits(c) == profile[c] = "ready"

Validate(t) ==
    /\ Loop(t, "check")
    /\ SetRequest(t, IF ProfileFits(At(t)) THEN Continue(t) ELSE NoRequest)
    /\ UNCHANGED <<storeVars, api, validated, manifest, restarted, rebuild>>

Created(t) == [ensuring[t] EXCEPT !.todo = @ \ {At(t)}]

\* Creating a collection that exists is refused: another thread was faster.
CreateMissing(t) ==
    /\ Loop(t, "create")
    /\ IF At(t) \in Existing
       THEN SetRequest(t, NoRequest) /\ UNCHANGED profile
       ELSE /\ profile' = [profile EXCEPT ![At(t)] = "ready"]
            /\ \/ SetRequest(t, Created(t))
               \/ SetRequest(t, NoRequest)     \* the answer is lost
    /\ UNCHANGED <<objects, written, api, validated, manifest, restarted, rebuild>>

Remember(t) ==
    /\ ensuring[t].step = "create" /\ ensuring[t].todo = {}
    /\ validated' = validated \cup {ensuring[t].tenant}
    /\ SetRequest(t, [ensuring[t] EXCEPT !.step = "serve"])
    /\ UNCHANGED <<storeVars, api, manifest, restarted, rebuild>>

\* A call of the storage raises before it has an effect.
EnsureRaises(t) ==
    /\ ensuring[t].step \in {"look", "check", "create"} /\ ensuring[t].todo # {}
    /\ SetRequest(t, NoRequest)
    /\ UNCHANGED <<storeVars, api, validated, manifest, restarted, rebuild>>

\* What the request is for: it inserts an object, or none.
Serve(t) ==
    /\ ensuring[t].step = "serve"
    /\ \E inserted \in {{}} \cup {{3 * ensuring[t].tenant - 2 + k} : k \in InsertedKinds} :
         /\ objects' = objects \cup (inserted \cap Existing)
         /\ written' = written \cup inserted
    /\ SetRequest(t, NoRequest)
    /\ UNCHANGED <<profile, api, validated, manifest, restarted, rebuild>>

------------------------------------------------------------------------------
(* The backend process.  The migration is run while it is stopped.          *)

StartApi ==
    /\ ~api /\ rebuild = NoRebuild
    /\ api' = TRUE
    /\ restarted' = TRUE
    /\ UNCHANGED <<storeVars, validated, ensuring, manifest, rebuild>>

\* It stops, or is killed with the requests it has.
StopApi ==
    /\ api
    /\ api' = FALSE
    /\ validated' = {}
    /\ ensuring' = [t \in RequestThreads |-> NoRequest]
    /\ UNCHANGED <<storeVars, manifest, restarted, rebuild>>

------------------------------------------------------------------------------
(* The migration.                                                           *)

Triplets == {u \in Tenants : TenantCollections(u) \subseteq Existing}
ManifestCollections == UNION {TenantCollections(u) : u \in manifest}

\* Every tenant has its three collections, and all are empty.  The export may
\* stop while it writes the manifest.
Export ==
    /\ ~api /\ rebuild = NoRebuild
    /\ Existing # {} /\ Existing = UNION {TenantCollections(u) : u \in Triplets}
    /\ objects \cap Existing = {}
    /\ manifest' \in {{}, Triplets}
    /\ restarted' = FALSE
    /\ UNCHANGED <<storeVars, api, validated, ensuring, rebuild>>

\* A usable manifest, no collection of another tenant, and no object in those
\* that exist: an interrupted rebuild has deleted one that it did not recreate.
RebuildAccepts ==
    /\ manifest # {}
    /\ Existing \subseteq ManifestCollections
    /\ objects \cap ManifestCollections \cap Existing = {}

BeginRebuild ==
    /\ ~api /\ rebuild = NoRebuild
    /\ RebuildAccepts
    /\ rebuild' = [step |-> "mark", todo |-> ManifestCollections]
    /\ UNCHANGED <<storeVars, api, validated, ensuring, manifest, restarted>>

Rebuilding(step) == rebuild.step = step /\ rebuild.todo # {}
Current == Min(rebuild.todo)
RebuildStep(step) ==
    rebuild' = IF rebuild.todo # {Current}
               THEN [step |-> step, todo |-> rebuild.todo \ {Current}]
               ELSE CASE step = "mark" -> [step |-> "delete", todo |-> ManifestCollections]
                      [] step = "delete" -> [step |-> "ready", todo |-> ManifestCollections]
                      [] step = "ready" -> NoRebuild

MarkRebuilding ==
    /\ Rebuilding("mark")
    /\ profile' = IF Current \in Existing THEN [profile EXCEPT ![Current] = "rebuilding"] ELSE profile
    /\ RebuildStep("mark")
    /\ UNCHANGED <<objects, written, api, validated, ensuring, manifest, restarted>>

DeleteCollection ==
    /\ Rebuilding("delete")
    /\ profile' = [profile EXCEPT ![Current] = "none"]
    /\ objects' = objects \ {Current}
    /\ rebuild' = [rebuild EXCEPT !.step = "create"]
    /\ UNCHANGED <<written, api, validated, ensuring, manifest, restarted>>

\* With the validation of what was created.
CreateCollection ==
    /\ Rebuilding("create")
    /\ profile' = [profile EXCEPT ![Current] = "rebuilding"]
    /\ RebuildStep("delete")
    /\ UNCHANGED <<objects, written, api, validated, ensuring, manifest, restarted>>

MarkReady ==
    /\ Rebuilding("ready")
    /\ profile' = [profile EXCEPT ![Current] = "ready"]
    /\ RebuildStep("ready")
    /\ UNCHANGED <<objects, written, api, validated, ensuring, manifest, restarted>>

\* A call fails, or the command is killed.
RebuildStops ==
    /\ rebuild # NoRebuild
    /\ rebuild' = NoRebuild
    /\ UNCHANGED <<storeVars, api, validated, ensuring, manifest, restarted>>

CollectionsNext ==
    \/ \E t \in RequestThreads :
         \/ \E u \in Tenants : Ensure(t, u)
         \/ LookUp(t) \/ Validate(t) \/ CreateMissing(t) \/ Remember(t)
         \/ EnsureRaises(t) \/ Serve(t)
    \/ StartApi \/ StopApi
    \/ Export \/ BeginRebuild \/ MarkRebuilding \/ DeleteCollection
    \/ CreateCollection \/ MarkReady \/ RebuildStops

CollectionsSpec == CollectionsInit /\ [][CollectionsNext]_collectionVars

------------------------------------------------------------------------------
(* Properties.                                                              *)

Served == validated \cup {ensuring[t].tenant : t \in {t \in RequestThreads : ensuring[t].step = "serve"}}

\* Whatever was interrupted, a tenant is served only with its three collections
\* ready (client.py:309-365), no object that was inserted is deleted, and a rebuild
\* can be run again as long as the backend has not been started since the export
\* (migrate_onnx_vectors.py:310-365, deployment/README.md:126-128).
CollectionsSafe ==
    /\ \A u \in Served : \A c \in TenantCollections(u) : profile[c] = "ready"
    /\ written \subseteq objects
    /\ manifest # {} /\ ~restarted /\ rebuild = NoRebuild => RebuildAccepts
=============================================================================
