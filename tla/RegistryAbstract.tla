-------------------------- MODULE RegistryAbstract --------------------------
(***************************************************************************)
(* What the tag registry promises (spec.md section 4.1): a map from        *)
(* positive ids to tags, guarded by one mutex.  Registration gives a tag   *)
(* an id that is not in use, and may fail with NO_RESOURCES only after     *)
(* scanning MaxAttempts candidates, all of them in use.  Removal empties a *)
(* slot, and the library's teardown drops the whole table.                 *)
(*                                                                         *)
(* The detailed module Registry (tag_id_inc, add_tag_lookup, the create   *)
(* and destroy paths, plc_tag_shutdown) is checked against this one.      *)
(***************************************************************************)
EXTENDS Naturals, FiniteSets, Functions, TLC

CONSTANTS
    Ids,          \* the ids a tag may be given (1..TAG_ID_MASK)
    Objs,         \* the tag objects
    Threads,      \* the threads that register tags
    MaxAttempts,  \* MAX_TAG_MAP_ATTEMPTS
    NoResources   \* the (negative) code of a failed registration

ASSUME MaxAttempts \in 1..Cardinality(Ids) /\ NoResources \notin Ids \cup {0}

VARIABLES
    map,     \* id -> tag, the entries in use
    result   \* per thread, the outcome of its last registration (0: none)

vars == <<map, result>>

NoEntries == [k \in {} |-> CHOOSE o \in Objs : TRUE]

Init ==
    /\ map = NoEntries
    /\ result = [t \in Threads |-> 0]

\* A fresh tag gets an id no live tag holds.
Register(t) ==
    \E k \in Ids \ DOMAIN map, o \in Objs \ Range(map) :
        /\ map' = map @@ (k :> o)
        /\ result' = [result EXCEPT ![t] = k]

\* Registration fails only if the candidates it scanned were all in use,
\* which needs at least MaxAttempts live ids.
RegisterFails(t) ==
    /\ Cardinality(DOMAIN map) >= MaxAttempts
    /\ result' = [result EXCEPT ![t] = NoResources]
    /\ UNCHANGED map

Remove ==
    \E k \in DOMAIN map :
        /\ map' = Restrict(map, DOMAIN map \ {k})
        /\ UNCHANGED result

Teardown ==
    /\ map' = NoEntries
    /\ UNCHANGED result

Next ==
    \/ \E t \in Threads : Register(t) \/ RegisterFails(t)
    \/ Remove
    \/ Teardown

Spec == Init /\ [][Next]_vars

=============================================================================
