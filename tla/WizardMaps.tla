----------------------------- MODULE WizardMaps -----------------------------
(***************************************************************************)
(* How the two maps of one user and collection come into being: each       *)
(* WizardRuntime accessor makes the map on first use, by a check and an    *)
(* assignment that no lock joins (wizard/runtime.py:139-149).  create      *)
(* requests run create_wizard in threads of their own and then read the    *)
(* wizard back on the event loop; list requests stay on the event loop     *)
(* (api/_wizard.py).  A thread can be switched between any two steps here. *)
(***************************************************************************)
EXTENDS FiniteSets

CONSTANTS
    Posts,          \* POST requests, each named as the wizard it makes
    Gets,           \* GET requests
    Starts,         \* the values of warm a run begins with
    None

ASSUME StartsAssumption == Starts \subseteq BOOLEAN
ASSUME RequestsAssumption ==
    /\ Posts \cap Gets = {}
    /\ None \notin Posts \cup Gets \cup {"first"}

Requests == Posts \cup Gets
Accessors == {"document", "paragraph"}
Instances == Requests \cup {"first"}    \* a map, named by the request that made it

VARIABLES
    slot,           \* slot[a]: the instance in _document_maps, _paragraph_maps
    held,           \* held[a][r]: the instance request r obtained
    holds,          \* holds[a][i]: the wizards in instance i
    at, turn,       \* where each request is, and where in an accessor
    loop,           \* the request the event loop is executing, or None
    warm            \* were the maps of the scope used before?

mapsVars == <<slot, held, holds, at, turn, loop, warm>>

MapsInit ==
    /\ warm \in Starts
    /\ slot = [a \in Accessors |-> IF warm THEN "first" ELSE None]
    /\ held = [a \in Accessors |-> [r \in Requests |-> None]]
    /\ holds = [a \in Accessors |-> [i \in Instances |-> {}]]
    /\ at = [r \in Requests |-> IF r \in Posts THEN "document" ELSE "list"]
    /\ turn = [r \in Requests |-> "check"]
    /\ loop = None

---------------------------------------------------------------------------
(* document_map(), paragraph_map() *)

Accessor(r) == IF at[r] = "paragraph" THEN "paragraph" ELSE "document"

\* What runs on the event loop waits for the handler that has it.
OnLoop(r) == at[r] \in {"list", "again"}
MayRun(r) == OnLoop(r) => loop \in {None, r}
Take(r) == loop' = IF OnLoop(r) THEN r ELSE loop
Release(r) == loop' = IF OnLoop(r) THEN None ELSE loop

\* Seeded faults: an accessor that always makes a map, or never does.
FaultMissing(a) == TRUE
FaultNotMissing(a) == FALSE

Missing(a) == slot[a] = None

Check(r) ==
    /\ turn[r] = "check" /\ MayRun(r) /\ Take(r)
    /\ turn' = [turn EXCEPT ![r] = IF Missing(Accessor(r)) THEN "make" ELSE "read"]
    /\ UNCHANGED <<slot, held, holds, at>>

Register(r) ==
    /\ turn[r] = "make" /\ Take(r)
    /\ slot' = [slot EXCEPT ![Accessor(r)] = r]
    /\ turn' = [turn EXCEPT ![r] = "read"]
    /\ UNCHANGED <<held, holds, at>>

Read(r) ==
    /\ turn[r] = "read" /\ Take(r)
    /\ held' = [held EXCEPT ![Accessor(r)][r] = slot[Accessor(r)]]
    /\ turn' = [turn EXCEPT ![r] = "use"]
    /\ UNCHANGED <<slot, holds, at>>

---------------------------------------------------------------------------
(* The requests *)

Advance(r, from, to, next) ==
    /\ at[r] = from /\ turn[r] = "use"
    /\ at' = [at EXCEPT ![r] = to]
    /\ turn' = [turn EXCEPT ![r] = next]
    /\ Release(r)

NextMap(w) ==
    /\ Advance(w, "document", "paragraph", "check")
    /\ UNCHANGED <<slot, held, holds>>

Write(a, w, from, to, next) ==
    /\ Advance(w, from, to, next)
    /\ holds' = [holds EXCEPT ![a][held[a][w]] = @ \cup {w}]
    /\ UNCHANGED <<slot, held>>

\* create_document, replace_document; the handler goes on to _resource.
WriteDocument(w) == Write("document", w, "paragraph", "between", "use")
WriteParagraph(w) == Write("paragraph", w, "between", "again", "check")

\* The created wizard is read back through the accessor: 201, or a KeyError
\* that no clause of the handler catches.
ReadBack(w) ==
    /\ Advance(w, "again",
            IF w \in holds["document"][held["document"][w]]
            THEN "answered" ELSE "lost", "over")
    /\ UNCHANGED <<slot, held, holds>>

Listed(r) == Advance(r, "list", "listed", "over") /\ UNCHANGED <<slot, held, holds>>

MapsNext ==
    /\ \E r \in Requests :
        \/ Check(r) \/ Register(r) \/ Read(r)
        \/ NextMap(r) \/ WriteDocument(r) \/ WriteParagraph(r)
        \/ ReadBack(r) \/ Listed(r)
    /\ UNCHANGED warm

MapsSpec == MapsInit /\ [][MapsNext]_mapsVars

---------------------------------------------------------------------------
\* The state has its types, and an accessor that returned has returned a map.
MapsTypeOK ==
    /\ \A r \in Requests : turn[r] = "use" => held[Accessor(r)][r] # None
    /\ slot \in [Accessors -> Instances \cup {None}]
    /\ held \in [Accessors -> [Requests -> Instances \cup {None}]]
    /\ holds \in [Accessors -> [Instances -> SUBSET Posts]]
    /\ at \in [Requests -> {"document", "paragraph", "between", "again",
                            "answered", "lost", "list", "listed"}]
    /\ turn \in [Requests -> {"check", "make", "read", "use", "over"}]
    /\ loop \in Requests \cup {None}
    /\ warm \in Starts

\* "the application must use one authoritative map instance per user and
\* collection namespace" (BACKEND.md 1.3): once create_wizard has written it,
\* a wizard is in the registered document map, where every later request
\* looks for it.
Written(w) == at[w] \in {"between", "again", "answered", "lost"}
CreatedIsFound ==
    \A w \in Posts : Written(w) => w \in holds["document"][slot["document"]]

\* The same once the maps of the scope exist (WizardRuntime.document_map
\* returns the registered one): no request, however interleaved, replaces it.
FoundWhenWarm == warm => CreatedIsFound
=============================================================================
