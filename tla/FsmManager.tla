---------------------------- MODULE FsmManager ----------------------------
(***************************************************************************)
(* framework/fsm_manager.{h,cpp}: a table of objects under identifiers     *)
(* that are counted and masked, so that after a long run they come again.  *)
(* The caller keeps pointers to the objects it created and destroys them   *)
(* through these.                                                          *)
(***************************************************************************)
EXTENDS Integers

CONSTANTS IdMask,    \* FSM_ID_MASK
          Objects,   \* the places alloc_fsm may return
          NoObject

ASSUME FsmAssumption == IdMask \in Nat \ {0} /\ NoObject \notin Objects

VARIABLES fsmSeq,     \* m_seq
          container,  \* m_container
          allocated,  \* external: the objects that alloc_fsm returned and free_fsm did not get
          idOf,       \* m_id of each object
          collided    \* history: an identifier was given out while an object had it

fsmVars == <<fsmSeq, container, allocated, idOf, collided>>

Ids == 0 .. IdMask

FsmInit ==
    /\ fsmSeq = 0
    /\ container = [i \in Ids |-> NoObject]
    /\ allocated = {}
    /\ idOf = [o \in Objects |-> 0]
    /\ collided = FALSE

NextId == (fsmSeq + 1) % (IdMask + 1)

\* A fault in the code that the property must catch: the table is changed before m_seq.
CreateFsmEarly(o) ==
    /\ o \notin allocated
    /\ fsmSeq' = NextId
    /\ idOf' = [idOf EXCEPT ![o] = NextId]
    /\ container' = [container EXCEPT ![fsmSeq] = o]
    /\ allocated' = allocated \cup {o}
    /\ collided' = (collided \/ \E x \in allocated : idOf[x] = NextId)

\* create_fsm; when alloc_fsm returns NULL nothing changes.
CreateFsm(o) ==
    /\ o \notin allocated
    /\ fsmSeq' = NextId
    /\ idOf' = [idOf EXCEPT ![o] = NextId]
    /\ container' = [container EXCEPT ![NextId] = o]
    /\ allocated' = allocated \cup {o}
    /\ collided' = (collided \/ \E x \in allocated : idOf[x] = NextId)

\* destroy_fsm frees the object it is given and erases whatever has its identifier.
DestroyFsm(o) ==
    /\ o \in allocated
    /\ container[idOf[o]] # NoObject
    /\ container' = [container EXCEPT ![idOf[o]] = NoObject]
    /\ allocated' = allocated \ {o}
    /\ UNCHANGED <<fsmSeq, idOf, collided>>

ClearFsm ==
    /\ allocated' = allocated \ {container[i] : i \in Ids}
    /\ container' = [i \in Ids |-> NoObject]
    /\ UNCHANGED <<fsmSeq, idOf, collided>>

FsmNext ==
    \/ \E o \in Objects : CreateFsm(o) \/ DestroyFsm(o)
    \/ ClearFsm

FsmSpec == FsmInit /\ [][FsmNext]_fsmVars
-----------------------------------------------------------------------------
\* get_fsm
GetFsm(id) == container[id]

\* Whatever the order of creations and destructions, before and after the identifiers
\* came round, get_fsm never returns an object that was freed or that has another
\* identifier; and it finds every object, unless an identifier was given out while an
\* object had it (cpp:38-68).
FsmFound ==
    /\ \A i \in Ids : GetFsm(i) # NoObject => GetFsm(i) \in allocated /\ idOf[GetFsm(i)] = i
    /\ ~collided => \A o \in allocated : GetFsm(idOf[o]) = o
=============================================================================
