------------------------------ MODULE Registry ------------------------------
(***************************************************************************)
(* The tag registry of lib/lib.c: the hashtable `tags` from tag ids to     *)
(* tags under tag_lookup_mutex, the id allocator tag_id_inc and           *)
(* add_tag_lookup, and every path that adds or removes an entry:           *)
(*   - plc_tag_create_ex maps the tag, then stores the id in the tag       *)
(*     outside the mutex, then removes the entry again if the tag's status *)
(*     or the wait for its creation fails;                                 *)
(*   - plc_tag_destroy removes an entry by id;                             *)
(*   - plc_tag_shutdown walks the table and destroys every tag it finds    *)
(*     by the id stored in that tag, then tears the table down.            *)
(*                                                                         *)
(* What a tag does once it is mapped (reads, writes, the abort and the     *)
(* events of a destroy) is LibTag's business.  Here a tag is a number:     *)
(* the order in which plc_tag_create_ex allocated it.                      *)
(***************************************************************************)
EXTENDS Integers, FiniteSets, Functions, Bitwise, TLC

CONSTANTS
    Threads,            \* API threads calling plc_tag_create_ex/plc_tag_destroy
    TagIdMask,          \* TAG_ID_MASK, scaled down: 2^k - 1
    MaxTagMapAttempts,  \* MAX_TAG_MAP_ATTEMPTS, scaled down
    MaxTags,            \* bound: the number of tag objects constructed
    StartIds            \* values next_tag_id may have when the model starts

ASSUME /\ TagIdMask \in {2^k - 1 : k \in 1..8}
       /\ MaxTagMapAttempts \in 1..TagIdMask
       /\ MaxTags \in Nat
       /\ StartIds \subseteq 1..TagIdMask

Ids == 1..TagIdMask

\* PLCTAG_ERR_NO_RESOURCES, which add_tag_lookup returns in place of an id.
ErrNoResources == -1
Objs == 1..MaxTags

VARIABLES
    next_tag_id,  \* the static next_tag_id
    tags,         \* the hashtable: id -> tag
    tag_id,       \* tag -> tag->tag_id (0 until plc_tag_create_ex sets it)
    nobj,         \* tags constructed so far
    pc,           \* per thread: where it is in plc_tag_create_ex
    obj,          \* per thread: the tag it is creating
    id,           \* per thread: the local `id` of plc_tag_create_ex
    reg,          \* per thread: what its last add_tag_lookup returned (0: none)
    rc,           \* per thread: what its last call returned
    terminating,  \* library_terminating
    sd,           \* plc_tag_shutdown: "off", "scan" or "got"
    sdi,          \* plc_tag_shutdown: the table index it is at
    sdobj         \* plc_tag_shutdown: the tag it took a reference to

vars == <<next_tag_id, tags, tag_id, nobj, pc, obj, id, reg, rc,
          terminating, sd, sdi, sdobj>>

NoEntries == [k \in {} |-> 0]

\* Removing a key that is not in the table leaves it unchanged.
HashtableRemove(tbl, k) == Restrict(tbl, DOMAIN tbl \ {k})

-----------------------------------------------------------------------------
\* Mutant: tag_id_inc without the test that skips 0.
TagIdIncNoSkip(i) ==
    LET j == IF i <= 0 THEN TagIdMask \div 2 ELSE i
    IN (j + 1) & TagIdMask

(* tag_id_inc: the id after `i`, wrapping under the mask and skipping 0.   *)
TagIdInc(i) ==
    LET j == IF i <= 0 THEN TagIdMask \div 2 ELSE i
        n == (j + 1) & TagIdMask
    IN IF n = 0 THEN 1 ELSE n

(***************************************************************************)
(* The do-while loop of add_tag_lookup, from new_id = `i` after `attempts` *)
(* failed probes: [id, ok], where id is the last candidate tried.          *)
(***************************************************************************)
\* Mutant: the probe takes the next id without asking the table.
ProbeSkipsLookup(i, attempts) == [id |-> TagIdInc(i), ok |-> TRUE]

RECURSIVE Probe(_, _)
Probe(i, attempts) ==
    LET n == TagIdInc(i) IN
    IF n <= 0 THEN [id |-> n, ok |-> FALSE]
    ELSE IF n \notin DOMAIN tags THEN [id |-> n, ok |-> TRUE]
    ELSE IF attempts + 1 < MaxTagMapAttempts THEN Probe(n, attempts + 1)
    ELSE [id |-> n, ok |-> FALSE]

(***************************************************************************)
(* plc_tag_destroy's registry part on `tbl`: the range check, then         *)
(* hashtable_remove under the mutex.  [tags, rc].  The abort, the          *)
(* DESTROYED event and the callbacks that follow are LibTag's.             *)
(***************************************************************************)
DestroyOp(tbl, h) ==
    IF h <= 0 \/ h >= TagIdMask THEN [tags |-> tbl, rc |-> "NULL_PTR"]
    ELSE IF h \notin DOMAIN tbl THEN [tags |-> tbl, rc |-> "NOT_FOUND"]
    ELSE [tags |-> HashtableRemove(tbl, h), rc |-> "OK"]

-----------------------------------------------------------------------------
Init ==
    /\ next_tag_id \in StartIds
    /\ tags = NoEntries
    /\ tag_id = [o \in Objs |-> 0]
    /\ nobj = 0
    /\ pc = [t \in Threads |-> "idle"]
    /\ obj = [t \in Threads |-> 0]
    /\ id = [t \in Threads |-> 0]
    /\ reg = [t \in Threads |-> 0]
    /\ rc = [t \in Threads |-> "none"]
    /\ terminating = FALSE
    /\ sd = "off"
    /\ sdi = 0
    /\ sdobj = 0

shutdownVars == <<terminating, sd, sdi, sdobj>>

(***************************************************************************)
(* plc_tag_create_ex up to add_tag_lookup: the terminating check, then the *)
(* constructor and the attribute checks, which either fail (the error is   *)
(* returned, nothing was mapped) or leave a tag to map.                    *)
(***************************************************************************)
CreateStart(t) ==
    /\ pc[t] = "idle"
    /\ \/ /\ terminating
          /\ rc' = [rc EXCEPT ![t] = "NOT_ALLOWED"]
          /\ UNCHANGED <<pc, obj, nobj>>
       \/ /\ ~terminating
          /\ rc' = [rc EXCEPT ![t] = "CREATE_ERR"]
          /\ UNCHANGED <<pc, obj, nobj>>
       \/ /\ ~terminating
          /\ nobj < MaxTags
          /\ nobj' = nobj + 1
          /\ obj' = [obj EXCEPT ![t] = nobj + 1]
          /\ pc' = [pc EXCEPT ![t] = "lookup"]
          /\ UNCHANGED rc
    /\ UNCHANGED <<next_tag_id, tags, tag_id, id, reg, shutdownVars>>

(* add_tag_lookup, one critical block; on failure create returns its rc. *)
AddTagLookup(t) ==
    LET p == Probe(next_tag_id, 0) IN
    /\ pc[t] = "lookup"
    /\ next_tag_id' = p.id
    /\ IF p.ok
       THEN /\ tags' = tags @@ (p.id :> obj[t])
            /\ id' = [id EXCEPT ![t] = p.id]
            /\ reg' = [reg EXCEPT ![t] = p.id]
            /\ pc' = [pc EXCEPT ![t] = "mapped"]
            /\ UNCHANGED rc
       ELSE /\ reg' = [reg EXCEPT ![t] = ErrNoResources]
            /\ rc' = [rc EXCEPT ![t] = "NO_RESOURCES"]
            /\ pc' = [pc EXCEPT ![t] = "idle"]
            /\ UNCHANGED <<tags, id>>
    /\ UNCHANGED <<tag_id, nobj, obj, shutdownVars>>

(* `tag->tag_id = id;`, outside the mutex. *)
SetTagId(t) ==
    /\ pc[t] = "mapped"
    /\ tag_id' = [tag_id EXCEPT ![obj[t]] = id[t]]
    /\ pc' = [pc EXCEPT ![t] = "status"]
    /\ UNCHANGED <<next_tag_id, tags, nobj, obj, id, reg, rc, shutdownVars>>

(***************************************************************************)
(* The rest of plc_tag_create_ex: the tag's status, and the wait for a     *)
(* pending creation, end in the id being returned, or in an error after    *)
(* which the entry at tag->tag_id is removed.                              *)
(***************************************************************************)
CreateFinish(t) ==
    /\ pc[t] = "status"
    /\ \/ /\ rc' = [rc EXCEPT ![t] = "OK"]  \* returns id[t]
          /\ UNCHANGED tags
       \/ /\ tags' = HashtableRemove(tags, tag_id[obj[t]])
          /\ rc' = [rc EXCEPT ![t] = "CREATE_ERR"]
    /\ pc' = [pc EXCEPT ![t] = "idle"]
    /\ UNCHANGED <<next_tag_id, tag_id, nobj, obj, id, reg, shutdownVars>>

(* plc_tag_destroy(h), for any id a caller may pass. *)
PlcTagDestroy(t, h) ==
    LET r == DestroyOp(tags, h) IN
    /\ pc[t] = "idle"
    /\ tags' = r.tags
    /\ rc' = [rc EXCEPT ![t] = r.rc]
    /\ UNCHANGED <<next_tag_id, tag_id, nobj, pc, obj, id, reg, shutdownVars>>

-----------------------------------------------------------------------------
(* plc_tag_shutdown sets library_terminating and starts its scan. *)
ShutdownBegin ==
    /\ sd = "off"
    /\ terminating' = TRUE
    /\ sd' = "scan"
    /\ sdi' = 1
    /\ UNCHANGED <<next_tag_id, tags, tag_id, nobj, pc, obj, id, reg, rc, sdobj>>

(* One critical block of the scan: take a reference to the tag at index sdi. *)
ShutdownGet ==
    /\ sd = "scan"
    /\ sdi <= TagIdMask
    /\ IF sdi \in DOMAIN tags
       THEN /\ sdobj' = tags[sdi]
            /\ sd' = "got"
            /\ UNCHANGED sdi
       ELSE /\ sdi' = sdi + 1
            /\ UNCHANGED <<sd, sdobj>>
    /\ UNCHANGED <<next_tag_id, tags, tag_id, nobj, pc, obj, id, reg, rc, terminating>>

(* Outside the mutex: plc_tag_destroy(tag->tag_id). *)
ShutdownDestroy ==
    /\ sd = "got"
    /\ tags' = DestroyOp(tags, tag_id[sdobj]).tags
    /\ sd' = "scan"
    /\ sdi' = sdi + 1
    /\ UNCHANGED <<next_tag_id, tag_id, nobj, pc, obj, id, reg, rc, terminating, sdobj>>

(***************************************************************************)
(* After the scan, destroy_modules tears the library down: lib_teardown    *)
(* destroys the hashtable (a tag still in it is dropped with it) and       *)
(* clears library_terminating.                                             *)
(***************************************************************************)
ShutdownEnd ==
    /\ sd = "scan"
    /\ sdi > TagIdMask
    /\ tags' = NoEntries
    /\ terminating' = FALSE
    /\ sd' = "off"
    /\ UNCHANGED <<next_tag_id, tag_id, nobj, pc, obj, id, reg, rc, sdi, sdobj>>

Next ==
    \/ \E t \in Threads :
          \/ CreateStart(t) \/ AddTagLookup(t) \/ SetTagId(t) \/ CreateFinish(t)
          \/ \E h \in 0..TagIdMask : PlcTagDestroy(t, h)
    \/ ShutdownBegin \/ ShutdownGet \/ ShutdownDestroy \/ ShutdownEnd

Spec == Init /\ [][Next]_vars

-----------------------------------------------------------------------------
RegistryTypeOK ==
    /\ next_tag_id \in Ids
    /\ DOMAIN tags \subseteq Ids /\ Range(tags) \subseteq 1..nobj
    /\ tag_id \in [Objs -> 0..TagIdMask]
    /\ nobj \in 0..MaxTags
    /\ pc \in [Threads -> {"idle", "lookup", "mapped", "status"}]
    /\ terminating \in BOOLEAN
    /\ sd \in {"off", "scan", "got"}

(***************************************************************************)
(* The registry implements its abstract specification (spec.md 4.1):       *)
(* add_tag_lookup never maps an id that is in use, never hands out 0 or an *)
(* id above the mask, and fails with NO_RESOURCES only when at least       *)
(* MAX_TAG_MAP_ATTEMPTS ids are live; every other path only removes.       *)
(***************************************************************************)
Abstract == INSTANCE RegistryAbstract
    WITH Ids <- Ids, Objs <- Objs, Threads <- Threads,
         MaxAttempts <- MaxTagMapAttempts, NoResources <- ErrNoResources,
         map <- tags, result <- reg

RegistryRefines == Abstract!Spec

(***************************************************************************)
(* Every id the registry hands out is one plc_tag_destroy accepts, so each *)
(* created tag can be destroyed (spec.md 5: after destroy(T) lookup(T)     *)
(* yields NOT_FOUND).                                                      *)
(***************************************************************************)
LiveIdsDestroyable ==
    \A k \in DOMAIN tags : DestroyOp(tags, k).rc = "OK"

=============================================================================
