------------------------ MODULE SessionStore_proofs ------------------------
(***************************************************************************)
(* Proofs about the session store of SessionStore.tla, for any number of   *)
(* workers, slots and saves, with logins in the same slot, workers in the  *)
(* same session and kills at every step: what they damage is exactly what  *)
(* the history variables met, stale and torn name.                         *)
(***************************************************************************)
EXTENDS SessionStore, FiniteSetTheorems, TLAPS

(* A worker in a session, one that has a slot of it in hand, and one that  *)
(* is about to take a slot.                                                *)
Active == {"find", "save_st", "save_hand", "load_hand", "ai", "serve"}
Using  == {"save_st", "save_hand", "load_hand"}
Taking == {"claim", "name"}

(* Who is in which session: one that was named by its login, and whose     *)
(* last worker is its heir.                                                *)
SidInv ==
  /\ \A w \in Workers : pc[w] \in Allocating \union {"new", "full"} => my_sid[w] = NO_SID
  /\ \A w \in Workers : pc[w] \in Active => my_sid[w] # NO_SID
  /\ \A w \in Workers : my_sid[w] # NO_SID => my_sid[my_sid[w]] = my_sid[w]
  /\ \A w \in Workers : pc[w] = "load_hand" => acked[my_sid[w]] > 0
  /\ \A s \in Workers : acked[s] > 0 => my_sid[s] = s
  /\ \A s \in Workers : my_sid[s] = s => heir[s] \in Workers /\ my_sid[heir[s]] = s

(* A named slot is valid and its name is its login's, no name occurs twice,*)
(* and a login that met no other keeps its slot.                           *)
NameInv ==
  /\ \A i \in Slots : sessions[i].session_id # NO_SID =>
       sessions[i].valid /\ my_sid[sessions[i].session_id] = sessions[i].session_id
  /\ \A i, j \in Slots : sessions[i].session_id = sessions[j].session_id
                           /\ sessions[i].session_id # NO_SID => i = j
  /\ \A w \in Workers \ met : my_sid[w] = w => \E i \in Slots : sessions[i].session_id = w

(* A login about to take a slot is alone there, or it has met the others,  *)
(* the one whose name is there already included.                           *)
TakeInv ==
  \A v \in Workers : pc[v] \in Taking =>
    /\ \A u \in Workers : u # v /\ pc[u] \in Taking /\ slot[u] = slot[v] => v \in met
    /\ sessions[slot[v]].session_id # NO_SID => v \in met /\ sessions[slot[v]].session_id \in met
    /\ pc[v] = "name" => sessions[slot[v]].valid

(* The slot a worker copies to or from is its session's, unless both its   *)
(* own login and that of the slot's name met another.                      *)
UseInv ==
  \A w \in Workers : pc[w] \in Using =>
    \/ sessions[slot[w]].session_id = my_sid[w]
    \/ my_sid[w] \in met /\ sessions[slot[w]].session_id \in met

(* Every valid slot is due to a login of its own, and a login passes only  *)
(* valid slots.                                                            *)
CountInv ==
  /\ \A w \in Workers : pc[w] \in {"new", "check", "claim", "full"} => w \notin claims
  /\ \A w \in Workers : pc[w] \in {"new", "check"} =>
       \A j \in Slots : j < slot[w] => sessions[j].valid
  /\ \A w \in Workers : pc[w] = "full" => \A j \in Slots : sessions[j].valid
  /\ Cardinality({i \in Slots : sessions[i].valid}) <= Cardinality(claims)

(* What the worker w of session s knows of the entry e of s: it plays a    *)
(* game of s, and if it is the heir the store is not ahead of it.          *)
Follows(w, s, e) ==
  /\ pc[w] \in Active => local[w].st.sid = s
  /\ pc[w] = "load_hand" => local[w].st.n <= e.st.n
  /\ w = heir[s] =>
       /\ pc[w] \in {"find", "save_st"} => acked[s] = 0 \/ e.st.n <= local[w].st.n
       /\ pc[w] \in {"save_hand", "load_hand", "ai", "serve"} => e.st = local[w].st
       /\ pc[w] \in {"ai", "serve"} => e.hand = local[w].hand

Ordered(s, i) ==
  /\ acked[s] > 0 => sessions[i].st.sid = s /\ acked[s] <= sessions[i].st.n
  /\ \A w \in Workers : my_sid[w] = s => Follows(w, s, sessions[i])

OrderInv ==
  \A s \in Workers \ (met \union stale) : \A i \in Slots :
    sessions[i].session_id = s => Ordered(s, i)

(* Pairs: what worker w of session s has in hand is whole, and the pair of *)
(* the entry e is only incomplete while one worker alone is between its    *)
(* two copies.                                                             *)
Pairs(w, s, e) ==
  /\ pc[w] \in Active \ {"load_hand"} => local[w].st.sid = s /\ local[w].hand = HandOf(local[w].st)
  /\ pc[w] = "save_hand" =>
       \A v \in Workers : v # w /\ my_sid[v] = s => pc[v] \notin {"save_hand", "load_hand"}
  /\ pc[w] \in {"save_hand", "load_hand"} => e.st = local[w].st

Paired(s, i) ==
  /\ \/ acked[s] = 0
     \/ \E w \in Workers : my_sid[w] = s /\ pc[w] = "save_hand"
     \/ sessions[i].st.sid = s /\ sessions[i].hand = HandOf(sessions[i].st)
  /\ \A w \in Workers : my_sid[w] = s => Pairs(w, s, sessions[i])

TearInv ==
  \A s \in Workers \ (met \union torn) : \A i \in Slots :
    sessions[i].session_id = s => Paired(s, i)

(* The inductive invariant.                                                *)
Names == TypeOK /\ SidInv /\ NameInv /\ TakeInv /\ UseInv
IInv  == Names /\ CountInv /\ OrderInv /\ TearInv
-----------------------------------------------------------------------------
(* A named session is found in its one slot.                               *)
LEMMA FindIs ==
  ASSUME NameInv, NEW sid, sid # NO_SID, NEW i \in Slots, sessions[i].session_id = sid
  PROVE  Found(sid) /\ FindSlot(sid) = i
<1>1. Entry(i, sid) /\ \A j \in Slots : Entry(j, sid) => j = i
  BY DEF NameInv, Entry
<1>2. i <= i
  BY StoreAssumption DEF Slots
<1>3. /\ FindSlot(sid) \in Slots /\ Entry(FindSlot(sid), sid)
  BY <1>1, <1>2 DEF FindSlot
<1> QED BY <1>1, <1>3 DEF Found

(* A search that finds something stops at the slot of that session.        *)
LEMMA FoundSlot ==
  ASSUME NameInv, NEW sid, sid # NO_SID, Found(sid)
  PROVE  FindSlot(sid) \in Slots /\ sessions[FindSlot(sid)].session_id = sid
  BY FindIs DEF Found, Entry

(* The sets CountInv compares are finite.                                  *)
LEMMA FiniteSides ==
  ASSUME TypeOK
  PROVE  /\ IsFiniteSet({i \in Slots : sessions[i].valid}) /\ IsFiniteSet(claims)
         /\ IsFiniteSet(Slots) /\ Cardinality(Slots) = MAX_SESSIONS
<1>1. IsFiniteSet(Slots) /\ Cardinality(Slots) = MAX_SESSIONS
  BY StoreAssumption, FS_Interval DEF Slots
<1> QED BY <1>1, StoreAssumption, FS_Subset DEF TypeOK

(* Steps that only move a worker: out of the handshake into the allocation *)
(* loop, out of the loop with no slot, or to its end.                      *)
LEMMA Quiet ==
  ASSUME IInv, NEW w \in Workers, NEW l \in {"check", "full", "exit", "killed"},
         UNCHANGED <<store, heir, acked, claims, met, stale>>,
         pc' = [pc EXCEPT ![w] = l],
         torn \subseteq torn', torn' \subseteq Workers,
         pc[w] = "save_hand" => my_sid[w] \in torn',
         l = "check" => pc[w] = "new",
         l = "full" => pc[w] = "check" /\ \A j \in Slots : sessions[j].valid
  PROVE  IInv'
<1> USE DEF IInv, Names, store
<1>0. /\ pc'[w] = l /\ \A v \in Workers : v # w => pc'[v] = pc[v]
      /\ pc'[w] \notin Active /\ pc'[w] \notin Using /\ pc'[w] \notin Taking
  BY DEF TypeOK, Active, Using, Taking
<1>1. TypeOK'
  BY DEF TypeOK, Locations, Allocating
<1>2. SidInv'
  BY <1>0 DEF SidInv, Allocating, Active
<1>3. NameInv'
  BY DEF NameInv
<1>4. TakeInv' /\ UseInv'
  BY <1>0 DEF TakeInv, UseInv
<1>5. CountInv'
  BY <1>0 DEF CountInv
<1>6. OrderInv'
  <2> SUFFICES ASSUME NEW s \in Workers \ (met \union stale), NEW i \in Slots,
                      sessions[i].session_id = s, NEW v \in Workers, my_sid[v] = s
               PROVE  Follows(v, s, sessions[i])'
    BY DEF OrderInv, Ordered
  <2>1. Follows(v, s, sessions[i])
    BY DEF OrderInv, Ordered
  <2>2. CASE v = w
    BY <1>0, <2>2 DEF Follows, Active
  <2>3. CASE v # w
    BY <1>0, <2>1, <2>3 DEF Follows
  <2> QED BY <2>2, <2>3
<1>7. TearInv'
  <2> SUFFICES ASSUME NEW s \in Workers \ (met \union torn'), NEW i \in Slots,
                      sessions[i].session_id = s
               PROVE  /\ \/ acked[s] = 0
                         \/ \E v \in Workers : my_sid[v] = s /\ pc'[v] = "save_hand"
                         \/ sessions[i].st.sid = s /\ sessions[i].hand = HandOf(sessions[i].st)
                      /\ \A v \in Workers : my_sid[v] = s => Pairs(v, s, sessions[i])'
    BY DEF TearInv, Paired
  <2>1. /\ \/ acked[s] = 0
           \/ \E v \in Workers : my_sid[v] = s /\ pc[v] = "save_hand"
           \/ sessions[i].st.sid = s /\ sessions[i].hand = HandOf(sessions[i].st)
        /\ \A v \in Workers : my_sid[v] = s => Pairs(v, s, sessions[i])
    BY DEF TearInv, Paired
  <2>2. ASSUME NEW v \in Workers, my_sid[v] = s PROVE Pairs(v, s, sessions[i])'
    <3>1. CASE v = w
      BY <1>0, <3>1 DEF Pairs, Active
    <3>2. CASE v # w
      BY <1>0, <2>1, <2>2, <3>2 DEF Pairs
    <3> QED BY <3>1, <3>2
  <2>3. \A v \in Workers : my_sid[v] = s /\ pc[v] = "save_hand" => pc'[v] = "save_hand"
    BY <1>0
  <2> QED BY <2>1, <2>2, <2>3
<1> QED BY <1>1, <1>2, <1>3, <1>4, <1>5, <1>6, <1>7

(* LOGIN_REQ, the end of a connection, a kill.                             *)
LEMMA LoginInv ==
  ASSUME IInv, NEW w \in Workers, Login(w)
  PROVE  IInv'
  BY Quiet DEF Login, Goto, IInv, Names, TypeOK, mishaps

LEMMA ExitInv ==
  ASSUME IInv, NEW w \in Workers, Exit(w)
  PROVE  IInv'
  BY Quiet DEF Exit, Goto, IInv, Names, TypeOK, mishaps

LEMMA KillInv ==
  ASSUME IInv, NEW w \in Workers, Kill(w)
  PROVE  IInv'
<1>1. pc[w] = "save_hand" => my_sid[w] \in Workers
  BY DEF IInv, Names, TypeOK, SidInv, Active, Sids
<1>2. /\ torn \subseteq torn' /\ torn' \subseteq Workers
      /\ pc[w] = "save_hand" => my_sid[w] \in torn'
  BY <1>1 DEF Kill, IInv, Names, TypeOK
<1> QED BY <1>2, Quiet DEF Kill, Goto

(* The test of valid.                                                      *)
LEMMA AllocCheckInv ==
  ASSUME IInv, NEW w \in Workers, AllocCheck(w)
  PROVE  IInv'
<1> USE DEF IInv, Names
<1>0. pc[w] = "check" /\ UNCHANGED <<sessions, my_sid, local, heir, acked, claims, stale, torn>>
  BY DEF AllocCheck
<1>a. slot[w] \in Slots
  BY DEF TypeOK
<1>1. CASE sessions[slot[w]].valid /\ slot[w] + 1 = MAX_SESSIONS
  <2>1. pc' = [pc EXCEPT ![w] = "full"] /\ UNCHANGED <<slot, met>>
    BY <1>1, <1>a, StoreAssumption DEF AllocCheck, Goto, Slots
  <2>2. \A j \in Slots : sessions[j].valid
    <3>1. \A j \in Slots : j < slot[w] \/ j = slot[w]
      BY <1>1, <1>a, StoreAssumption DEF Slots
    <3> QED BY <1>0, <1>1, <3>1 DEF CountInv
  <2> QED BY <1>0, <2>1, <2>2, Quiet DEF store, TypeOK
<1>2. CASE sessions[slot[w]].valid /\ slot[w] + 1 < MAX_SESSIONS
  <2>1. slot' = [slot EXCEPT ![w] = slot[w] + 1] /\ UNCHANGED <<pc, met>>
    BY <1>2, <1>a, StoreAssumption DEF AllocCheck, Slots
  <2>2. slot[w] + 1 \in Slots
    BY <1>2, <1>a, StoreAssumption DEF Slots
  <2>3. /\ slot'[w] = slot[w] + 1 /\ \A v \in Workers : v # w => slot'[v] = slot[v]
    BY <2>1 DEF TypeOK
  <2>4. TypeOK'
    BY <1>0, <2>1, <2>2 DEF TypeOK
  <2>5. SidInv' /\ NameInv'
    BY <1>0, <2>1 DEF SidInv, NameInv
  <2>6. TakeInv' /\ UseInv'
    BY <1>0, <2>1, <2>3 DEF TakeInv, UseInv, Taking, Using
  <2>7. CountInv'
    <3>1. \A j \in Slots : j < slot[w] + 1 => sessions[j].valid
      BY <1>0, <1>2, <1>a DEF CountInv, Slots
    <3> QED BY <1>0, <2>1, <2>3, <3>1 DEF CountInv
  <2>8. OrderInv'
    BY <1>0, <2>1 DEF OrderInv, Ordered, Follows
  <2>9. TearInv'
    BY <1>0, <2>1 DEF TearInv, Paired, Pairs
  <2> QED BY <2>4, <2>5, <2>6, <2>7, <2>8, <2>9
<1>3. CASE ~sessions[slot[w]].valid
  <2> DEFINE rivals == {v \in Workers \ {w} : pc[v] = "claim" /\ slot[v] = slot[w]}
  <2>1. /\ pc' = [pc EXCEPT ![w] = "claim"] /\ slot' = slot
        /\ met' = IF rivals = {} THEN met ELSE met \union rivals \union {w}
    BY <1>3 DEF AllocCheck, Goto, MeetRivals
  <2>2. met \subseteq met' /\ met' \subseteq Workers
    BY <2>1 DEF TypeOK
  <2>3. pc'[w] = "claim" /\ \A v \in Workers : v # w => pc'[v] = pc[v]
    BY <2>1 DEF TypeOK
  <2>4. TypeOK'
    BY <1>0, <2>1, <2>2 DEF TypeOK, Locations, Allocating
  <2>5. SidInv'
    BY <1>0, <2>3 DEF SidInv, Allocating, Active
  <2>6. NameInv'
    BY <1>0, <2>2 DEF NameInv
  <2>7. TakeInv'
    <3>1. sessions[slot[w]].session_id = NO_SID
      BY <1>3, <1>a DEF NameInv
    <3>2. \A v \in Workers : v # w /\ pc[v] \in Taking /\ slot[v] = slot[w] => v \in rivals
      BY <1>3 DEF TakeInv, Taking
    <3>3. \A v \in Workers : v # w /\ pc[v] \in Taking /\ slot[v] = slot[w] => v \in met' /\ w \in met'
      BY <2>1, <3>2
    <3> QED BY <1>0, <2>1, <2>2, <2>3, <3>1, <3>3 DEF TakeInv, Taking
  <2>8. UseInv'
    BY <1>0, <2>1, <2>2, <2>3 DEF UseInv, Using
  <2>9. CountInv'
    BY <1>0, <2>1, <2>3 DEF CountInv
  <2>10. OrderInv'
    BY <1>0, <2>2, <2>3 DEF OrderInv, Ordered, Follows, Active
  <2>11. TearInv'
    BY <1>0, <2>2, <2>3 DEF TearInv, Paired, Pairs, Active
  <2> QED BY <2>4, <2>5, <2>6, <2>7, <2>8, <2>9, <2>10, <2>11
<1> QED BY <1>1, <1>2, <1>3, <1>a, StoreAssumption DEF Slots

(* valid = 1 adds at most one slot, for a login that had none.             *)
LEMMA AllocClaimInv ==
  ASSUME IInv, NEW w \in Workers, AllocClaim(w)
  PROVE  IInv'
<1> USE DEF IInv, Names
<1>0. /\ pc[w] = "claim" /\ pc' = [pc EXCEPT ![w] = "name"] /\ claims' = claims \union {w}
      /\ UNCHANGED <<slot, my_sid, local, heir, acked, met, stale, torn>>
  BY DEF AllocClaim, Goto, mishaps
<1>a. slot[w] \in Slots
  BY DEF TypeOK
<1>b. pc'[w] = "name" /\ \A v \in Workers : v # w => pc'[v] = pc[v]
  BY <1>0 DEF TypeOK
<1>c. \A i \in Slots : /\ sessions'[i].session_id = sessions[i].session_id
                       /\ sessions'[i].st = sessions[i].st
                       /\ sessions'[i].hand = sessions[i].hand
                       /\ sessions[i].valid => sessions'[i].valid
                       /\ sessions'[i].valid => i = slot[w] \/ sessions[i].valid
                       /\ i = slot[w] => sessions'[i].valid
  BY DEF TypeOK, AllocClaim
<1>1. TypeOK'
  <2>1. sessions' \in [Slots -> [valid : BOOLEAN, session_id : Sids, st : States, hand : Hands]]
    BY ZenonT(60) DEF AllocClaim, TypeOK
  <2> QED BY <1>0, <2>1 DEF TypeOK, Locations, Allocating
<1>2. SidInv'
  BY <1>0, <1>b DEF SidInv, Allocating, Active
<1>3. NameInv'
  BY <1>0, <1>c DEF NameInv
<1>4. TakeInv'
  BY <1>0, <1>a, <1>b, <1>c DEF TakeInv, Taking, TypeOK
<1>5. UseInv'
  BY <1>0, <1>b, <1>c DEF UseInv, Using, TypeOK
<1>6. CountInv'
  <2> DEFINE V == {i \in Slots : sessions[i].valid}
  <2>1. w \notin claims
    BY <1>0 DEF CountInv
  <2>2. {i \in Slots : sessions'[i].valid} = V \union {slot[w]}
    BY <1>a, <1>c
  <2>3. Cardinality(claims \union {w}) = Cardinality(claims) + 1
    BY <2>1, FiniteSides, FS_AddElement
  <2>4. Cardinality(V \union {slot[w]}) <= Cardinality(V) + 1
    <3>1. IsFiniteSet(V)
      BY FiniteSides
    <3> HIDE DEF V
    <3>2. /\ Cardinality(V) \in Nat
          /\ Cardinality(V \union {slot[w]}) = IF slot[w] \in V THEN Cardinality(V) ELSE Cardinality(V) + 1
      BY <3>1, FS_AddElement, FS_CardinalityType
    <3> QED BY <3>2
  <2>5. /\ Cardinality(V) \in Nat /\ Cardinality(V \union {slot[w]}) \in Nat
        /\ Cardinality(claims) \in Nat
    BY FiniteSides, FS_AddElement, FS_CardinalityType
  <2>6. Cardinality(V) <= Cardinality(claims)
    BY DEF CountInv
  <2>7. Cardinality({i \in Slots : sessions'[i].valid}) <= Cardinality(claims')
    <3> HIDE DEF V
    <3>1. Cardinality(V \union {slot[w]}) <= Cardinality(claims \union {w})
      BY <2>3, <2>4, <2>5, <2>6
    <3> QED BY <1>0, <2>2, <3>1
  <2> QED BY <1>0, <1>b, <1>c, <2>7 DEF CountInv
<1>7. OrderInv'
  BY <1>0, <1>b, <1>c DEF OrderInv, Ordered, Follows, Active
<1>8. TearInv'
  BY <1>0, <1>b, <1>c DEF TearInv, Paired, Pairs, Active
<1> QED BY <1>1, <1>2, <1>3, <1>4, <1>5, <1>6, <1>7, <1>8

(* session_id = sid: the login's own name, which no slot had.  A name that *)
(* it overwrites is that of a login it met.                                *)
LEMMA AllocNameInv ==
  ASSUME IInv, NEW w \in Workers, AllocName(w)
  PROVE  IInv'
<1> USE DEF IInv, Names
<1>0. /\ pc[w] = "name" /\ pc' = [pc EXCEPT ![w] = "find"] /\ my_sid' = [my_sid EXCEPT ![w] = w]
      /\ heir' = [heir EXCEPT ![w] = w]
      /\ UNCHANGED <<slot, acked, claims, met, stale, torn>>
  BY DEF AllocName, Goto, mishaps
<1>a. slot[w] \in Slots /\ w # NO_SID
  BY StoreAssumption DEF TypeOK
<1>b. /\ pc'[w] = "find" /\ my_sid'[w] = w /\ heir'[w] = w
      /\ \A v \in Workers : v # w => pc'[v] = pc[v] /\ my_sid'[v] = my_sid[v] /\ heir'[v] = heir[v]
  BY <1>0 DEF TypeOK
<1>c. \A i \in Slots : /\ sessions'[i].session_id = IF i = slot[w] THEN w ELSE sessions[i].session_id
                       /\ sessions'[i].st = sessions[i].st
                       /\ sessions'[i].hand = sessions[i].hand
                       /\ sessions'[i].valid <=> sessions[i].valid
  BY DEF TypeOK, AllocName
<1>d. /\ local'[w].st = [sid |-> w, n |-> 1, deal |-> 1, turn |-> 0]
      /\ local'[w].hand = [sid |-> w, deal |-> 1]
      /\ \A v \in Workers : v # w => local'[v] = local[v]
  BY DEF AllocName, TypeOK
<1>e. /\ my_sid[w] = NO_SID /\ \A i \in Slots : sessions[i].session_id # w
      /\ \A v \in Workers : my_sid[v] # w
      /\ acked[w] = 0
  <2>1. my_sid[w] = NO_SID
    BY <1>0 DEF SidInv, Allocating
  <2>2. acked[w] \in Nat
    BY DEF TypeOK
  <2> QED BY <1>a, <2>1, <2>2 DEF SidInv, NameInv
<1>1. TypeOK'
  <2>1. sessions' \in [Slots -> [valid : BOOLEAN, session_id : Sids, st : States, hand : Hands]]
    BY SMTT(60) DEF AllocName, TypeOK, Sids
  <2>2. local' \in [Workers -> [st : States, hand : Hands]]
    <3>1. /\ [sid |-> w, n |-> 1, deal |-> 1, turn |-> 0] \in States
          /\ [sid |-> w, deal |-> 1] \in Hands
      BY DEF States, Hands, Sids
    <3> QED BY <3>1, ZenonT(60) DEF AllocName, TypeOK
  <2> QED BY <1>0, <2>1, <2>2 DEF TypeOK, Locations, Allocating, Sids
<1>2. SidInv'
  <2>1. \A v \in Workers : v # w => pc'[v] = pc[v] /\ my_sid'[v] = my_sid[v] /\ heir'[v] = heir[v]
                                    /\ my_sid[v] # w
    BY <1>b, <1>e
  <2>2. my_sid'[my_sid'[w]] = my_sid'[w] /\ heir'[w] \in Workers /\ my_sid'[heir'[w]] = w
    BY <1>b
  <2>3. \A v \in Workers : my_sid[v] \in Workers \union {NO_SID}
    BY DEF TypeOK, Sids
  <2>4. \A s \in Workers : s # w /\ my_sid[s] = s => heir[s] # w
    BY <1>a, <1>e, StoreAssumption DEF SidInv
  <2> QED BY <1>0, <1>a, <1>b, <1>e, <2>1, <2>2, <2>3, <2>4 DEF SidInv, Allocating, Active
<1>3. NameInv'
  <2>1. \A i \in Slots : sessions'[i].session_id # NO_SID =>
          sessions'[i].valid /\ my_sid'[sessions'[i].session_id] = sessions'[i].session_id
    <3> SUFFICES ASSUME NEW i \in Slots, sessions'[i].session_id # NO_SID
                 PROVE  sessions'[i].valid /\ my_sid'[sessions'[i].session_id] = sessions'[i].session_id
      OBVIOUS
    <3>1. CASE i = slot[w]
      BY <1>0, <1>b, <1>c, <3>1 DEF TakeInv, Taking
    <3>2. CASE i # slot[w]
      <4>1. sessions[i].session_id \in Workers
        BY <1>c, <3>2 DEF TypeOK, Sids
      <4> QED BY <1>b, <1>c, <1>e, <3>2, <4>1 DEF NameInv
    <3> QED BY <3>1, <3>2
  <2>2. \A i, j \in Slots : sessions'[i].session_id = sessions'[j].session_id
                           /\ sessions'[i].session_id # NO_SID => i = j
    BY <1>c, <1>e DEF NameInv
  <2>3. ASSUME NEW v \in Workers \ met, my_sid'[v] = v
        PROVE  \E i \in Slots : sessions'[i].session_id = v
    <3>1. CASE v = w
      BY <1>a, <1>c, <3>1
    <3>2. CASE v # w
      <4>1. PICK i \in Slots : sessions[i].session_id = v
        BY <1>b, <2>3, <3>2 DEF NameInv
      <4>2. v # NO_SID
        BY StoreAssumption
      <4>3. i # slot[w]
        BY <1>0, <2>3, <4>1, <4>2 DEF TakeInv, Taking
      <4> QED BY <1>c, <4>1, <4>3
    <3> QED BY <3>1, <3>2
  <2> QED BY <1>0, <2>1, <2>2, <2>3 DEF NameInv
<1>4. TakeInv'
  <2> SUFFICES ASSUME NEW v \in Workers, pc'[v] \in Taking
               PROVE  /\ \A u \in Workers : u # v /\ pc'[u] \in Taking /\ slot[u] = slot[v] => v \in met
                      /\ sessions'[slot[v]].session_id # NO_SID =>
                           v \in met /\ sessions'[slot[v]].session_id \in met
                      /\ pc'[v] = "name" => sessions'[slot[v]].valid
    BY <1>0 DEF TakeInv
  <2>1. v # w /\ pc[v] \in Taking /\ slot[v] \in Slots
    BY <1>b DEF Taking, TypeOK
  <2>2. \A u \in Workers : pc'[u] \in Taking => pc[u] \in Taking
    BY <1>b DEF Taking
  <2>3. slot[v] = slot[w] => v \in met /\ w \in met
    BY <1>0, <2>1 DEF TakeInv, Taking
  <2> QED BY <1>b, <1>c, <2>1, <2>2, <2>3 DEF TakeInv
<1>5. UseInv'
  <2> SUFFICES ASSUME NEW v \in Workers, pc'[v] \in Using
               PROVE  \/ sessions'[slot[v]].session_id = my_sid'[v]
                      \/ my_sid'[v] \in met /\ sessions'[slot[v]].session_id \in met
    BY <1>0 DEF UseInv
  <2>1. v # w /\ pc[v] \in Using /\ slot[v] \in Slots /\ my_sid'[v] = my_sid[v]
    BY <1>b DEF Using, TypeOK
  <2>2. my_sid[v] # NO_SID
    BY <2>1 DEF SidInv, Using, Active
  <2>3. CASE slot[v] = slot[w]
    <3>1. sessions[slot[w]].session_id # NO_SID
      BY <2>1, <2>2, <2>3, StoreAssumption DEF UseInv, TypeOK
    <3>2. w \in met /\ sessions[slot[w]].session_id \in met
      BY <1>0, <3>1 DEF TakeInv, Taking
    <3> QED BY <1>a, <1>c, <2>1, <2>3, <3>2 DEF UseInv
  <2>4. CASE slot[v] # slot[w]
    BY <1>c, <2>1, <2>4 DEF UseInv
  <2> QED BY <2>3, <2>4
<1>6. CountInv'
  <2>1. {i \in Slots : sessions'[i].valid} = {i \in Slots : sessions[i].valid}
    BY <1>c
  <2> QED BY <1>0, <1>b, <1>c, <2>1 DEF CountInv
<1>7. ASSUME NEW s \in Workers \ met, NEW i \in Slots, sessions'[i].session_id = s, s # w
      PROVE  sessions[i].session_id = s /\ i # slot[w] /\ heir'[s] = heir[s] /\ heir'[s] # w
  <2>1. sessions[i].session_id = s /\ i # slot[w]
    BY <1>c, <1>7
  <2>2. heir'[s] = heir[s]
    BY <1>b, <1>7
  <2>3. my_sid[s] = s
    BY <2>1, StoreAssumption DEF NameInv
  <2> QED BY <1>a, <1>e, <2>1, <2>2, <2>3, StoreAssumption DEF SidInv
<1>8. OrderInv'
  <2> SUFFICES ASSUME NEW s \in Workers \ (met \union stale), NEW i \in Slots,
                      sessions'[i].session_id = s
               PROVE  /\ acked[s] > 0 => sessions'[i].st.sid = s /\ acked[s] <= sessions'[i].st.n
                      /\ \A v \in Workers : my_sid'[v] = s => Follows(v, s, sessions[i])'
    BY <1>0 DEF OrderInv, Ordered
  <2>1. CASE s = w
    <3>1. \A v \in Workers : my_sid'[v] = s => v = w
      BY <1>b, <1>e, <2>1
    <3>2. Follows(w, w, sessions[i])'
      BY <1>0, <1>b, <1>d, <1>e DEF Follows
    <3> QED BY <1>e, <2>1, <3>1, <3>2
  <2>2. CASE s # w
    <3>1. sessions[i].session_id = s /\ i # slot[w] /\ heir'[s] = heir[s]
      BY <1>7, <2>2
    <3>2. /\ acked[s] > 0 => sessions[i].st.sid = s /\ acked[s] <= sessions[i].st.n
          /\ \A v \in Workers : my_sid[v] = s => Follows(v, s, sessions[i])
      BY <3>1 DEF OrderInv, Ordered
    <3>3. \A v \in Workers : my_sid'[v] = s => v # w /\ my_sid[v] = s
      BY <1>b, <2>2
    <3> QED BY <1>0, <1>b, <1>c, <1>d, <3>1, <3>2, <3>3 DEF Follows
  <2> QED BY <2>1, <2>2
<1>9. TearInv'
  <2> SUFFICES ASSUME NEW s \in Workers \ (met \union torn), NEW i \in Slots,
                      sessions'[i].session_id = s
               PROVE  /\ \/ acked[s] = 0
                         \/ \E v \in Workers : my_sid'[v] = s /\ pc'[v] = "save_hand"
                         \/ sessions'[i].st.sid = s /\ sessions'[i].hand = HandOf(sessions'[i].st)
                      /\ \A v \in Workers : my_sid'[v] = s => Pairs(v, s, sessions[i])'
    BY <1>0 DEF TearInv, Paired
  <2>1. CASE s = w
    <3>1. \A v \in Workers : my_sid'[v] = s => v = w
      BY <1>b, <1>e, <2>1
    <3>2. Pairs(w, w, sessions[i])'
      BY <1>b, <1>d DEF Pairs, HandOf
    <3> QED BY <1>e, <2>1, <3>1, <3>2
  <2>2. CASE s # w
    <3>1. sessions[i].session_id = s /\ i # slot[w]
      BY <1>7, <2>2
    <3>2. /\ \/ acked[s] = 0
             \/ \E v \in Workers : my_sid[v] = s /\ pc[v] = "save_hand"
             \/ sessions[i].st.sid = s /\ sessions[i].hand = HandOf(sessions[i].st)
          /\ \A v \in Workers : my_sid[v] = s => Pairs(v, s, sessions[i])
      BY <3>1 DEF TearInv, Paired
    <3>3. \A v \in Workers : my_sid'[v] = s => v # w /\ my_sid[v] = s
      BY <1>b, <2>2
    <3>4. \A v \in Workers : my_sid[v] = s => v # w
      BY <1>e, StoreAssumption
    <3>5. \A v \in Workers : my_sid'[v] = s => Pairs(v, s, sessions[i])'
      BY <1>b, <1>c, <1>d, <3>2, <3>3 DEF Pairs
    <3>6. \/ acked[s] = 0
          \/ \E v \in Workers : my_sid'[v] = s /\ pc'[v] = "save_hand"
          \/ sessions'[i].st.sid = s /\ sessions'[i].hand = HandOf(sessions'[i].st)
      BY <1>b, <1>c, <3>1, <3>2, <3>4
    <3> QED BY <3>5, <3>6
  <2> QED BY <2>1, <2>2
<1> QED BY <1>1, <1>2, <1>3, <1>4, <1>5, <1>6, <1>8, <1>9


(* A session is not touched by a step of a worker of another session.      *)
LEMMA Elsewhere ==
  ASSUME NEW w \in Workers, NEW s \in Workers, NEW i \in Slots,
         my_sid[w] # s, my_sid'[w] # s,
         \A v \in Workers : v # w => /\ pc'[v] = pc[v] /\ my_sid'[v] = my_sid[v]
                                     /\ local'[v] = local[v],
         acked'[s] = acked[s], heir'[s] = heir[s],
         sessions'[i].st = sessions[i].st, sessions'[i].hand = sessions[i].hand
  PROVE  (Ordered(s, i) => Ordered(s, i)') /\ (Paired(s, i) => Paired(s, i)')
<1>1. \A v \in Workers : my_sid'[v] = s => /\ v # w /\ my_sid[v] = s
                                           /\ pc'[v] = pc[v] /\ local'[v] = local[v]
  OBVIOUS
<1>2. \A v \in Workers : my_sid[v] = s => /\ v # w /\ my_sid'[v] = s /\ pc'[v] = pc[v]
  OBVIOUS
<1>3. Ordered(s, i) => Ordered(s, i)'
  BY <1>1 DEF Ordered, Follows
<1>4. Paired(s, i) => Paired(s, i)'
  <2> SUFFICES ASSUME Paired(s, i) PROVE Paired(s, i)'
    OBVIOUS
  <2>1. ASSUME NEW v \in Workers, my_sid'[v] = s PROVE Pairs(v, s, sessions[i])'
    BY <1>1, <2>1 DEF Paired, Pairs
  <2>2. \/ acked'[s] = 0
        \/ \E v \in Workers : my_sid'[v] = s /\ pc'[v] = "save_hand"
        \/ sessions'[i].st.sid = s /\ sessions'[i].hand = HandOf(sessions'[i].st)
    BY <1>2 DEF Paired
  <2> QED BY <2>1, <2>2 DEF Paired
<1> QED BY <1>3, <1>4

(* A worker in its session: that session has a name, and its slot unless   *)
(* its login met another.                                                  *)
LEMMA AtHome ==
  ASSUME Names, NEW w \in Workers, pc[w] \in Active
  PROVE  /\ my_sid[w] \in Workers /\ my_sid[w] # NO_SID
         /\ my_sid[my_sid[w]] = my_sid[w]
         /\ my_sid[w] \notin met => Found(my_sid[w])
<1>1. my_sid[w] \in Workers /\ my_sid[w] # NO_SID /\ my_sid[my_sid[w]] = my_sid[w]
  BY DEF Names, TypeOK, SidInv, Sids
<1>2. my_sid[w] \notin met => \E i \in Slots : sessions[i].session_id = my_sid[w]
  BY <1>1 DEF Names, NameInv
<1> QED BY <1>1, <1>2, FindIs DEF Names

(* The steps of a worker within its session keep all but the two parts     *)
(* about the order and the pair of that session itself.                    *)
LEMMA Inside ==
  ASSUME IInv, NEW w \in Workers, pc[w] \in Active,
         NEW l \in Active \ {"load_hand"}, pc' = [pc EXCEPT ![w] = l],
         UNCHANGED <<my_sid, heir, claims, met>>,
         stale \subseteq stale', stale' \subseteq Workers,
         torn \subseteq torn', torn' \subseteq Workers,
         sessions' \in [Slots -> [valid : BOOLEAN, session_id : Sids, st : States, hand : Hands]],
         local' \in [Workers -> [st : States, hand : Hands]],
         slot' \in [Workers -> Slots], acked' \in [Workers -> Nat],
         \A i \in Slots : /\ sessions'[i].session_id = sessions[i].session_id
                          /\ sessions'[i].valid <=> sessions[i].valid
                          /\ sessions[i].session_id \notin met \union {my_sid[w]} =>
                               sessions'[i].st = sessions[i].st /\ sessions'[i].hand = sessions[i].hand,
         \A v \in Workers : v # w => local'[v] = local[v] /\ slot'[v] = slot[v],
         \A s \in Workers : /\ s # my_sid[w] => acked'[s] = acked[s]
                            /\ acked'[s] >= acked[s],
         l \in Using => \/ sessions[slot'[w]].session_id = my_sid[w]
                        \/ pc[w] \in Using /\ slot'[w] = slot[w],
         \A i \in Slots : sessions[i].session_id = my_sid[w] /\ my_sid[w] \notin met =>
           /\ my_sid[w] \notin stale' => Ordered(my_sid[w], i)'
           /\ my_sid[w] \notin torn' => Paired(my_sid[w], i)'
  PROVE  IInv'
<1> USE DEF IInv, Names
<1>0. /\ pc'[w] = l /\ \A v \in Workers : v # w => pc'[v] = pc[v]
      /\ \A v \in Workers : v # w => slot'[v] = slot[v]
  BY DEF TypeOK
<1>a. my_sid[w] \in Workers /\ my_sid[w] # NO_SID /\ my_sid[my_sid[w]] = my_sid[w]
  BY AtHome
<1>1. TypeOK'
  BY DEF TypeOK, Locations, Active
<1>2. SidInv'
  <2>1. \A v \in Workers : pc'[v] \in Allocating \union {"new", "full"} => my_sid'[v] = NO_SID
    BY <1>0 DEF SidInv, Active, Allocating
  <2>2. \A v \in Workers : pc'[v] \in Active => my_sid'[v] # NO_SID
    BY <1>0, <1>a DEF SidInv
  <2>3. \A v \in Workers : pc'[v] = "load_hand" => acked'[my_sid'[v]] > 0
    <3> SUFFICES ASSUME NEW v \in Workers, pc'[v] = "load_hand" PROVE acked'[my_sid[v]] > 0
      OBVIOUS
    <3>1. pc[v] = "load_hand" /\ acked[my_sid[v]] > 0
      BY <1>0 DEF SidInv
    <3>2. my_sid[v] \in Workers
      BY <3>1, AtHome DEF Active
    <3>3. acked[my_sid[v]] \in Nat /\ acked'[my_sid[v]] \in Nat /\ acked'[my_sid[v]] >= acked[my_sid[v]]
      BY <3>2 DEF TypeOK
    <3> QED BY <3>1, <3>3
  <2>4. \A s \in Workers : acked'[s] > 0 => my_sid'[s] = s
    BY <1>a DEF SidInv
  <2> QED BY <2>1, <2>2, <2>3, <2>4 DEF SidInv
<1>3. NameInv'
  BY DEF NameInv
<1>4. TakeInv'
  BY <1>0 DEF TakeInv, Taking, Active, TypeOK
<1>5. UseInv'
  <2> SUFFICES ASSUME NEW v \in Workers, pc'[v] \in Using
               PROVE  \/ sessions'[slot'[v]].session_id = my_sid[v]
                      \/ my_sid[v] \in met /\ sessions'[slot'[v]].session_id \in met
    BY DEF UseInv
  <2>1. slot'[v] \in Slots /\ sessions'[slot'[v]].session_id = sessions[slot'[v]].session_id
    OBVIOUS
  <2>2. CASE v = w
    BY <1>0, <2>1, <2>2 DEF UseInv
  <2>3. CASE v # w
    BY <1>0, <2>1, <2>3 DEF UseInv
  <2> QED BY <2>2, <2>3
<1>6. CountInv'
  <2>1. {i \in Slots : sessions'[i].valid} = {i \in Slots : sessions[i].valid}
    OBVIOUS
  <2>2. \A v \in Workers : pc'[v] \in {"new", "check", "claim", "full"} =>
          pc[v] = pc'[v] /\ slot'[v] = slot[v]
    BY <1>0 DEF Active
  <2> QED BY <2>1, <2>2 DEF CountInv
<1>7. ASSUME NEW s \in Workers \ met, NEW i \in Slots, sessions[i].session_id = s, s # my_sid[w]
      PROVE  (Ordered(s, i) => Ordered(s, i)') /\ (Paired(s, i) => Paired(s, i)')
  BY <1>0, <1>7, Elsewhere
<1>8. OrderInv'
  <2> SUFFICES ASSUME NEW s \in Workers \ (met \union stale'), NEW i \in Slots,
                      sessions[i].session_id = s
               PROVE  Ordered(s, i)'
    BY DEF OrderInv
  <2>1. CASE s = my_sid[w]
    BY <2>1
  <2>2. CASE s # my_sid[w]
    BY <1>7, <2>2 DEF OrderInv
  <2> QED BY <2>1, <2>2
<1>9. TearInv'
  <2> SUFFICES ASSUME NEW s \in Workers \ (met \union torn'), NEW i \in Slots,
                      sessions[i].session_id = s
               PROVE  Paired(s, i)'
    BY DEF TearInv
  <2>1. CASE s = my_sid[w]
    BY <2>1
  <2>2. CASE s # my_sid[w]
    BY <1>7, <2>2 DEF TearInv
  <2> QED BY <2>1, <2>2
<1> QED BY <1>1, <1>2, <1>3, <1>4, <1>5, <1>6, <1>8, <1>9

(* What Show and Saved do to the record of what was sent, and where the    *)
(* worker goes on.                                                         *)
LEMMA ShowIs ==
  ASSUME TypeOK, NEW w \in Workers, my_sid[w] \in Workers, Show(w)
  PROVE  /\ acked' \in [Workers -> Nat]
         /\ \A s \in Workers : /\ s # my_sid[w] => acked'[s] = acked[s]
                               /\ acked'[s] >= acked[s]
         /\ acked'[my_sid[w]] = acked[my_sid[w]] \/ acked'[my_sid[w]] = local[w].st.n
<1>1. local[w].st.n \in Nat /\ \A s \in Workers : acked[s] \in Nat
  BY DEF TypeOK, States
<1>2. /\ acked' \in [Workers -> Nat]
      /\ \A s \in Workers : s # my_sid[w] => acked'[s] = acked[s]
      /\ acked'[my_sid[w]] = IF acked[my_sid[w]] < local[w].st.n
                               THEN local[w].st.n ELSE acked[my_sid[w]]
  BY <1>1 DEF Show, TypeOK
<1> QED BY <1>1, <1>2

LEMMA SavedIs ==
  ASSUME TypeOK, NEW w \in Workers, my_sid[w] \in Workers, Saved(w)
  PROVE  /\ \E l \in {"ai", "serve"} : pc' = [pc EXCEPT ![w] = l]
         /\ acked' \in [Workers -> Nat]
         /\ \A s \in Workers : /\ s # my_sid[w] => acked'[s] = acked[s]
                               /\ acked'[s] >= acked[s]
         /\ acked'[my_sid[w]] = acked[my_sid[w]] \/ acked'[my_sid[w]] = local[w].st.n
<1>1. CASE Goto(w, "ai") /\ UNCHANGED acked
  <2>1. \A s \in Workers : acked[s] \in Nat
    BY DEF TypeOK
  <2> QED BY <1>1, <2>1 DEF TypeOK, Goto
<1>2. CASE Goto(w, "serve") /\ Show(w)
  BY <1>2, ShowIs DEF Goto
<1> QED BY <1>1, <1>2 DEF Saved

(* The slot a save or a load copies to or from is named after its session  *)
(* or after a login that met another.                                      *)
LEMMA OwnSlot ==
  ASSUME Names, NEW w \in Workers, pc[w] \in Using
  PROVE  /\ slot[w] \in Slots
         /\ sessions[slot[w]].session_id \in met \union {my_sid[w]}
         /\ \A i \in Slots : sessions[i].session_id = my_sid[w] /\ my_sid[w] \notin met => i = slot[w]
<1>1. my_sid[w] # NO_SID
  BY AtHome DEF Using, Active
<1> QED BY <1>1 DEF Names, TypeOK, UseInv, NameInv

(* The search of a save: it fails only for a login that met another.       *)
LEMMA SaveFindInv ==
  ASSUME IInv, NEW w \in Workers, SaveFind(w)
  PROVE  IInv'
<1> USE DEF IInv, Names
<1> DEFINE s == my_sid[w]
<1>0. /\ pc[w] = "find" /\ pc[w] \in Active
      /\ UNCHANGED <<sessions, my_sid, local, heir, claims, met, stale, torn>>
  BY DEF SaveFind, mishaps, Active
<1>a. s \in Workers /\ s # NO_SID /\ (s \notin met => Found(s))
  BY <1>0, AtHome
<1>1. CASE Found(s)
  <2>1. /\ slot' = [slot EXCEPT ![w] = FindSlot(s)] /\ pc' = [pc EXCEPT ![w] = "save_st"]
        /\ acked' = acked
    BY <1>1 DEF SaveFind, Goto
  <2>2. FindSlot(s) \in Slots /\ sessions[FindSlot(s)].session_id = s
    BY <1>a, <1>1, FoundSlot
  <2>3. /\ slot' \in [Workers -> Slots] /\ slot'[w] = FindSlot(s)
        /\ \A v \in Workers : v # w => slot'[v] = slot[v]
    BY <2>1, <2>2 DEF TypeOK
  <2>4. pc'[w] = "save_st" /\ \A v \in Workers : v # w => pc'[v] = pc[v]
    BY <2>1 DEF TypeOK
  <2>5. ASSUME NEW i \in Slots, sessions[i].session_id = s, s \notin met
        PROVE  /\ s \notin stale' => Ordered(s, i)'
               /\ s \notin torn' => Paired(s, i)'
    <3>1. s \notin stale' => Ordered(s, i)'
      <4> SUFFICES ASSUME s \notin stale PROVE Ordered(s, i)'
        BY <1>0
      <4>1. Ordered(s, i)
        BY <1>a, <2>5 DEF OrderInv
      <4> QED BY <1>0, <2>1, <2>4, <4>1 DEF Ordered, Follows, Active
    <3>2. s \notin torn' => Paired(s, i)'
      <4> SUFFICES ASSUME s \notin torn PROVE Paired(s, i)'
        BY <1>0
      <4>1. Paired(s, i)
        BY <1>a, <2>5 DEF TearInv
      <4>2. \A v \in Workers : pc[v] = "save_hand" <=> pc'[v] = "save_hand"
        BY <1>0, <2>4
      <4>3. \A v \in Workers : pc[v] = "load_hand" <=> pc'[v] = "load_hand"
        BY <1>0, <2>4
      <4>4. \A v \in Workers : pc'[v] \in Active \ {"load_hand"} => pc[v] \in Active \ {"load_hand"}
        BY <1>0, <2>4 DEF Active
      <4> QED BY <1>0, <2>1, <4>1, <4>2, <4>3, <4>4 DEF Paired, Pairs
    <3> QED BY <3>1, <3>2
  <2>6. \A v \in Workers : acked[v] \in Nat
    BY DEF TypeOK
  <2>7. /\ sessions' \in [Slots -> [valid : BOOLEAN, session_id : Sids, st : States, hand : Hands]]
        /\ local' \in [Workers -> [st : States, hand : Hands]] /\ acked' \in [Workers -> Nat]
        /\ stale' \subseteq Workers /\ torn' \subseteq Workers
    BY <1>0, <2>1 DEF TypeOK
  <2>8. "save_st" \in Active \ {"load_hand"}
    BY DEF Active
  <2>9. \A v \in Workers : (v # s => acked'[v] = acked[v]) /\ acked'[v] >= acked[v]
    BY <2>1, <2>6
  <2> HIDE DEF s
  <2> QED BY <1>0, <2>1, <2>2, <2>3, <2>5, <2>7, <2>8, <2>9, Inside DEF s
<1>2. CASE ~Found(s)
  <2>1. Saved(w) /\ UNCHANGED slot
    BY <1>2 DEF SaveFind
  <2>2. PICK l \in {"ai", "serve"} : pc' = [pc EXCEPT ![w] = l]
    BY <1>a, <2>1, SavedIs
  <2>3. s \in met
    BY <1>a, <1>2
  <2>4. l \in Active \ {"load_hand"} /\ l \notin Using
    BY <2>2 DEF Active, Using
  <2>5. /\ acked' \in [Workers -> Nat]
        /\ \A v \in Workers : /\ v # my_sid[w] => acked'[v] = acked[v]
                              /\ acked'[v] >= acked[v]
    BY <1>a, <2>1, SavedIs
  <2> QED BY <1>0, <2>1, <2>2, <2>3, <2>4, <2>5, Inside DEF TypeOK
<1> QED BY <1>1, <1>2

(* A worker's st and hand replaced by others.                              *)
LEMMA NewLocal ==
  ASSUME NEW f \in [Workers -> [st : States, hand : Hands]], NEW w \in Workers,
         NEW g, g = [f EXCEPT ![w] = g[w]],
         NEW st \in States, NEW hand \in Hands, g[w] = [st |-> st, hand |-> hand]
  PROVE  g \in [Workers -> [st : States, hand : Hands]]
<1>1. [st |-> st, hand |-> hand] \in [st : States, hand : Hands]
  OBVIOUS
<1> QED BY <1>1, Zenon

(* The worker's new game, of a command or of the AI's turn, which its next *)
(* save will store.                                                        *)
LEMMA NewGame ==
  ASSUME IInv, NEW w \in Workers, pc[w] \in {"serve", "ai"}, pc' = [pc EXCEPT ![w] = "find"],
         UNCHANGED <<sessions, slot, my_sid, heir, acked, claims, met, stale, torn>>,
         local' \in [Workers -> [st : States, hand : Hands]],
         \A v \in Workers : v # w => local'[v] = local[v],
         local'[w].st.sid = local[w].st.sid, local'[w].st.n = local[w].st.n + 1,
         local[w].hand = HandOf(local[w].st) => local'[w].hand = HandOf(local'[w].st)
  PROVE  IInv'
<1> USE DEF IInv, Names
<1> DEFINE s == my_sid[w]
<1>0. /\ pc[w] \in Active \ {"load_hand"} /\ "find" \in Active \ {"load_hand"} /\ "find" \notin Using
      /\ pc'[w] = "find" /\ \A v \in Workers : v # w => pc'[v] = pc[v]
  BY DEF Active, Using, TypeOK
<1>a. s \in Workers
  BY <1>0, AtHome
<1>1. ASSUME NEW i \in Slots, sessions[i].session_id = s, s \notin met
      PROVE  /\ s \notin stale' => Ordered(s, i)'
             /\ s \notin torn' => Paired(s, i)'
  <2>1. s \notin stale' => Ordered(s, i)'
    <3> SUFFICES ASSUME s \notin stale PROVE Ordered(s, i)'
      OBVIOUS
    <3>1. Ordered(s, i)
      BY <1>a, <1>1 DEF OrderInv
    <3>2. local[w].st.n \in Nat
      BY DEF TypeOK, States
    <3>3. ASSUME NEW v \in Workers, my_sid[v] = s PROVE Follows(v, s, sessions[i])'
      <4>1. Follows(v, s, sessions[i])
        BY <3>1, <3>3 DEF Ordered
      <4>2. CASE v = w
        <5>1. local[w].st.sid = s /\ (w = heir[s] => sessions[i].st = local[w].st)
          BY <1>0, <4>1, <4>2 DEF Follows, Active
        <5> QED BY <1>0, <3>2, <4>2, <5>1 DEF Follows
      <4>3. CASE v # w
        BY <1>0, <4>1, <4>3 DEF Follows
      <4> QED BY <4>2, <4>3
    <3> QED BY <3>1, <3>3 DEF Ordered
  <2>2. s \notin torn' => Paired(s, i)'
    <3> SUFFICES ASSUME s \notin torn PROVE Paired(s, i)'
      OBVIOUS
    <3>1. Paired(s, i)
      BY <1>a, <1>1 DEF TearInv
    <3>2. \A v \in Workers : /\ pc[v] = "save_hand" <=> pc'[v] = "save_hand"
                             /\ pc[v] = "load_hand" <=> pc'[v] = "load_hand"
      BY <1>0
    <3>3. ASSUME NEW v \in Workers, my_sid[v] = s PROVE Pairs(v, s, sessions[i])'
      <4>1. Pairs(v, s, sessions[i])
        BY <3>1, <3>3 DEF Paired
      <4>2. CASE v = w
        BY <1>0, <4>1, <4>2 DEF Pairs, HandOf
      <4>3. CASE v # w
        BY <1>0, <3>2, <4>1, <4>3 DEF Pairs
      <4> QED BY <4>2, <4>3
    <3> QED BY <3>1, <3>2, <3>3 DEF Paired
  <2> QED BY <2>1, <2>2
<1>2. \A v \in Workers : acked[v] \in Nat
  BY DEF TypeOK
<1>3. /\ sessions' \in [Slots -> [valid : BOOLEAN, session_id : Sids, st : States, hand : Hands]]
      /\ slot' \in [Workers -> Slots] /\ acked' \in [Workers -> Nat]
      /\ stale' \subseteq Workers /\ torn' \subseteq Workers
  BY DEF TypeOK
<1>4. \A v \in Workers : (v # s => acked'[v] = acked[v]) /\ acked'[v] >= acked[v]
  BY <1>2
<1> QED BY <1>0, <1>1, <1>3, <1>4, Inside

LEMMA CommandInv ==
  ASSUME IInv, NEW w \in Workers, NEW op, Command(w, op)
  PROVE  IInv'
<1> USE DEF IInv, Names
<1> DEFINE n == local[w].st.n + 1
           played == [local EXCEPT ![w].st.n = n]
           ended == [local EXCEPT ![w].st.n = n, ![w].st.deal = n, ![w].st.turn = 1,
                                  ![w].hand = [sid |-> local[w].st.sid, deal |-> n]]
<1>0. /\ pc[w] = "serve" /\ pc' = [pc EXCEPT ![w] = "find"]
      /\ UNCHANGED <<sessions, slot, my_sid, heir, acked, claims, met, stale, torn>>
      /\ local' = played \/ local' = ended
  BY DEF Command, Goto, mishaps
<1>1. local[w].st \in States /\ local[w].hand \in Hands /\ n \in Nat
  BY DEF TypeOK, States
<1>2. CASE local' = played
  <2>1. /\ local'[w].st = [local[w].st EXCEPT !.n = n] /\ local'[w].hand = local[w].hand
        /\ \A v \in Workers : v # w => local'[v] = local[v]
    BY <1>2 DEF TypeOK
  <2>2. local' \in [Workers -> [st : States, hand : Hands]]
    <3>1. [local[w].st EXCEPT !.n = n] \in States
      BY <1>1 DEF States
    <3>2. local' = [local EXCEPT ![w] = local'[w]]
      BY <1>2 DEF TypeOK
    <3>3. local'[w] = [st |-> [local[w].st EXCEPT !.n = n], hand |-> local[w].hand]
      BY <1>2 DEF TypeOK
    <3>4. local \in [Workers -> [st : States, hand : Hands]]
      BY DEF TypeOK
    <3> HIDE DEF n, played, ended
    <3> QED BY <1>1, <3>1, <3>2, <3>3, <3>4, NewLocal
  <2>3. /\ local'[w].st.sid = local[w].st.sid /\ local'[w].st.n = n
        /\ local'[w].st.deal = local[w].st.deal
    BY <1>1, <2>1 DEF States
  <2> HIDE DEF played, ended
  <2> QED BY <1>0, <2>1, <2>2, <2>3, NewGame DEF HandOf
<1>3. CASE local' = ended
  <2>1. /\ local'[w].st = [local[w].st EXCEPT !.n = n, !.deal = n, !.turn = 1]
        /\ local'[w].hand = [sid |-> local[w].st.sid, deal |-> n]
        /\ \A v \in Workers : v # w => local'[v] = local[v]
    BY <1>3 DEF TypeOK
  <2>2. local' \in [Workers -> [st : States, hand : Hands]]
    <3>1. /\ [local[w].st EXCEPT !.n = n, !.deal = n, !.turn = 1] \in States
          /\ [sid |-> local[w].st.sid, deal |-> n] \in Hands
      BY <1>1 DEF States, Hands
    <3>2. local' = [local EXCEPT ![w] = local'[w]]
      BY <1>3 DEF TypeOK
    <3>3. local'[w] = [st |-> [local[w].st EXCEPT !.n = n, !.deal = n, !.turn = 1],
                       hand |-> [sid |-> local[w].st.sid, deal |-> n]]
      BY <1>3 DEF TypeOK
    <3> QED BY <3>1, <3>2, <3>3, NewLocal DEF TypeOK
  <2>3. /\ local'[w].st.sid = local[w].st.sid /\ local'[w].st.n = n /\ local'[w].st.deal = n
    BY <1>1, <2>1 DEF States
  <2> HIDE DEF played, ended
  <2> QED BY <1>0, <2>1, <2>2, <2>3, NewGame DEF HandOf
<1> QED BY <1>0, <1>2, <1>3

LEMMA AiTurnInv ==
  ASSUME IInv, NEW w \in Workers, AiTurn(w)
  PROVE  IInv'
<1> USE DEF IInv, Names
<1> DEFINE n == local[w].st.n + 1
<1>0. /\ pc[w] = "ai" /\ pc' = [pc EXCEPT ![w] = "find"]
      /\ UNCHANGED <<sessions, slot, my_sid, heir, acked, claims, met, stale, torn>>
  BY DEF AiTurn, Goto, mishaps
<1>1. local[w].st \in States /\ n \in Nat
  BY DEF TypeOK, States
<1>2. /\ local'[w].st = [local[w].st EXCEPT !.n = n, !.deal = n, !.turn = 0]
      /\ local'[w].hand = [sid |-> local[w].st.sid, deal |-> n]
      /\ \A v \in Workers : v # w => local'[v] = local[v]
  BY DEF AiTurn, TypeOK
<1>3. local' \in [Workers -> [st : States, hand : Hands]]
  <2>1. /\ [local[w].st EXCEPT !.n = n, !.deal = n, !.turn = 0] \in States
        /\ [sid |-> local[w].st.sid, deal |-> n] \in Hands
    BY <1>1 DEF States, Hands
  <2>2. local' = [local EXCEPT ![w] = local'[w]]
    BY DEF AiTurn, TypeOK
  <2>3. local'[w] = [st |-> [local[w].st EXCEPT !.n = n, !.deal = n, !.turn = 0],
                     hand |-> [sid |-> local[w].st.sid, deal |-> n]]
    BY DEF AiTurn, TypeOK
  <2> QED BY <2>1, <2>2, <2>3, NewLocal DEF TypeOK
<1>4. /\ local'[w].st.sid = local[w].st.sid /\ local'[w].st.n = n /\ local'[w].st.deal = n
  BY <1>1, <1>2 DEF States
<1> QED BY <1>0, <1>2, <1>3, <1>4, NewGame DEF HandOf

(* A copy to slot i changes the pair of that slot only.                    *)
LEMMA SaveSlot ==
  ASSUME Names, NEW w \in Workers, pc[w] \in {"save_st", "save_hand"}, SaveSt(w) \/ SaveHand(w)
  PROVE  /\ sessions' \in [Slots -> [valid : BOOLEAN, session_id : Sids, st : States, hand : Hands]]
         /\ \A i \in Slots :
              /\ sessions'[i].session_id = sessions[i].session_id
              /\ sessions'[i].valid <=> sessions[i].valid
              /\ sessions[i].session_id \notin met \union {my_sid[w]} =>
                   sessions'[i].st = sessions[i].st /\ sessions'[i].hand = sessions[i].hand
         /\ my_sid[w] \in Workers
         /\ stale \subseteq stale' /\ stale' \subseteq Workers
         /\ my_sid[w] \notin stale' => w = heir[my_sid[w]]
<1> USE DEF Names
<1>0. my_sid[w] \in Workers
  BY AtHome DEF Active
<1>1. /\ slot[w] \in Slots /\ sessions[slot[w]].session_id \in met \union {my_sid[w]}
  BY OwnSlot DEF Using
<1>2. /\ stale \subseteq stale' /\ stale' \subseteq Workers
      /\ my_sid[w] \notin stale' => w = heir[my_sid[w]]
  BY <1>0 DEF SaveSt, SaveHand, Overtaken, TypeOK
<1>3. /\ local[w].st \in States /\ local[w].hand \in Hands
  BY DEF TypeOK
<1>4. sessions' \in [Slots -> [valid : BOOLEAN, session_id : Sids, st : States, hand : Hands]]
  <2>1. CASE sessions' = [sessions EXCEPT ![slot[w]].st = local[w].st]
    BY <1>3, <2>1, ZenonT(60) DEF TypeOK
  <2>2. CASE sessions' = [sessions EXCEPT ![slot[w]].hand = local[w].hand]
    BY <1>3, <2>2, ZenonT(60) DEF TypeOK
  <2> QED BY <2>1, <2>2 DEF SaveSt, SaveHand
<1>5. \A i \in Slots :
        /\ sessions'[i].session_id = sessions[i].session_id
        /\ sessions'[i].valid <=> sessions[i].valid
        /\ i # slot[w] => sessions'[i] = sessions[i]
  BY <1>1 DEF SaveSt, SaveHand, TypeOK
<1> QED BY <1>0, <1>1, <1>2, <1>4, <1>5

(* The first copy, st.                                                     *)
LEMMA SaveStInv ==
  ASSUME IInv, NEW w \in Workers, SaveSt(w)
  PROVE  IInv'
<1> USE DEF IInv, Names
<1> DEFINE s == my_sid[w]
<1>0. /\ pc[w] = "save_st" /\ pc' = [pc EXCEPT ![w] = "save_hand"]
      /\ torn' = IF Other(w, s, {"save_hand", "load_hand"}) THEN torn \union {s} ELSE torn
      /\ UNCHANGED <<slot, my_sid, local, heir, acked, claims, met>>
  BY DEF SaveSt, Goto
<1>a. /\ pc[w] \in Active /\ pc[w] \in Using /\ "save_hand" \in Active \ {"load_hand"}
      /\ pc'[w] = "save_hand" /\ \A v \in Workers : v # w => pc'[v] = pc[v]
  BY <1>0 DEF Active, Using, TypeOK
<1>b. /\ sessions' \in [Slots -> [valid : BOOLEAN, session_id : Sids, st : States, hand : Hands]]
      /\ \A i \in Slots :
              /\ sessions'[i].session_id = sessions[i].session_id
              /\ sessions'[i].valid <=> sessions[i].valid
              /\ sessions[i].session_id \notin met \union {s} =>
                   sessions'[i].st = sessions[i].st /\ sessions'[i].hand = sessions[i].hand
      /\ s \in Workers
      /\ stale \subseteq stale' /\ stale' \subseteq Workers
      /\ s \notin stale' => w = heir[s]
  BY <1>0, SaveSlot
<1>c. torn \subseteq torn' /\ torn' \subseteq Workers
  BY <1>0, <1>b DEF TypeOK
<1>1. ASSUME NEW i \in Slots, sessions[i].session_id = s, s \notin met
      PROVE  /\ s \notin stale' => Ordered(s, i)'
             /\ s \notin torn' => Paired(s, i)'
  <2>1. i = slot[w] /\ sessions'[i].st = local[w].st
    BY <1>a, <1>1, OwnSlot DEF SaveSt, TypeOK
  <2>2. s \notin stale' => Ordered(s, i)'
    <3> SUFFICES ASSUME s \notin stale' PROVE Ordered(s, i)'
      OBVIOUS
    <3>1. Ordered(s, i) /\ w = heir[s]
      BY <1>b, <1>1 DEF OrderInv
    <3>2. /\ local[w].st.sid = s
          /\ acked[s] = 0 \/ sessions[i].st.n <= local[w].st.n
      BY <1>0, <1>a, <3>1 DEF Ordered, Follows
    <3>3. acked[s] \in Nat /\ sessions[i].st.n \in Nat /\ local[w].st.n \in Nat
      BY <1>b DEF TypeOK, States
    <3>4. acked[s] > 0 => acked[s] <= local[w].st.n
      BY <3>1, <3>2, <3>3 DEF Ordered
    <3>5. ASSUME NEW v \in Workers, my_sid[v] = s PROVE Follows(v, s, sessions[i])'
      <4>1. Follows(v, s, sessions[i])
        BY <3>1, <3>5 DEF Ordered
      <4>2. CASE v = w
        BY <1>0, <1>a, <2>1, <3>2, <4>2 DEF Follows
      <4>3. CASE v # w
        <5>1. pc'[v] = "load_hand" => local[v].st.n <= local[w].st.n
          <6> SUFFICES ASSUME pc[v] = "load_hand" PROVE local[v].st.n <= local[w].st.n
            BY <1>a, <4>3
          <6>1. acked[s] > 0
            BY <3>5 DEF SidInv
          <6>2. local[v].st.n <= sessions[i].st.n /\ local[v].st.n \in Nat
            BY <4>1 DEF Follows, TypeOK, States
          <6> QED BY <3>2, <3>3, <6>1, <6>2
        <5> QED BY <1>0, <1>a, <2>1, <3>1, <4>1, <4>3, <5>1 DEF Follows
      <4> QED BY <4>2, <4>3
    <3> QED BY <1>0, <2>1, <3>2, <3>4, <3>5 DEF Ordered
  <2>3. s \notin torn' => Paired(s, i)'
    <3> SUFFICES ASSUME s \notin torn' PROVE Paired(s, i)'
      OBVIOUS
    <3>1. Paired(s, i) /\ \A v \in Workers : v # w /\ my_sid[v] = s =>
                            pc[v] \notin {"save_hand", "load_hand"}
      BY <1>0, <1>b, <1>1 DEF TearInv, Other
    <3>2. ASSUME NEW v \in Workers, my_sid[v] = s PROVE Pairs(v, s, sessions[i])'
      <4>1. Pairs(v, s, sessions[i])
        BY <3>1, <3>2 DEF Paired
      <4>2. CASE v = w
        <5>1. local[w].st.sid = s /\ local[w].hand = HandOf(local[w].st)
          BY <1>0, <1>a, <4>1, <4>2 DEF Pairs
        <5> QED BY <1>0, <1>a, <2>1, <3>1, <4>2, <5>1 DEF Pairs
      <4>3. CASE v # w
        BY <1>0, <1>a, <3>1, <3>2, <4>1, <4>3 DEF Pairs
      <4> QED BY <4>2, <4>3
    <3> QED BY <1>0, <1>a, <3>2 DEF Paired
  <2> QED BY <2>2, <2>3
<1>2. \A v \in Workers : (v # s => acked'[v] = acked[v]) /\ acked'[v] >= acked[v]
  BY <1>0 DEF TypeOK
<1>3. /\ local' \in [Workers -> [st : States, hand : Hands]]
      /\ slot' \in [Workers -> Slots] /\ acked' \in [Workers -> Nat]
  BY <1>0 DEF TypeOK
<1> QED BY <1>0, <1>a, <1>b, <1>c, <1>1, <1>2, <1>3, Inside

(* The second copy, hand, and what follows the save.                       *)
LEMMA SaveHandInv ==
  ASSUME IInv, NEW w \in Workers, SaveHand(w)
  PROVE  IInv'
<1> USE DEF IInv, Names
<1> DEFINE s == my_sid[w]
<1>0. /\ pc[w] = "save_hand" /\ Saved(w)
      /\ UNCHANGED <<slot, my_sid, local, heir, claims, met, torn>>
  BY DEF SaveHand
<1>b. /\ sessions' \in [Slots -> [valid : BOOLEAN, session_id : Sids, st : States, hand : Hands]]
      /\ \A i \in Slots :
              /\ sessions'[i].session_id = sessions[i].session_id
              /\ sessions'[i].valid <=> sessions[i].valid
              /\ sessions[i].session_id \notin met \union {s} =>
                   sessions'[i].st = sessions[i].st /\ sessions'[i].hand = sessions[i].hand
      /\ s \in Workers
      /\ stale \subseteq stale' /\ stale' \subseteq Workers
      /\ s \notin stale' => w = heir[s]
  BY <1>0, SaveSlot
<1>c. PICK l \in {"ai", "serve"} : pc' = [pc EXCEPT ![w] = l]
  BY <1>0, <1>b, SavedIs
<1>a. /\ pc[w] \in Active /\ pc[w] \in Using /\ l \in Active \ {"load_hand"} /\ l \notin Using
      /\ pc'[w] = l /\ \A v \in Workers : v # w => pc'[v] = pc[v]
  BY <1>0, <1>c DEF Active, Using, TypeOK
<1>d. /\ acked' \in [Workers -> Nat]
      /\ \A v \in Workers : (v # s => acked'[v] = acked[v]) /\ acked'[v] >= acked[v]
      /\ acked'[s] = acked[s] \/ acked'[s] = local[w].st.n
  BY <1>0, <1>b, SavedIs
<1>1. ASSUME NEW i \in Slots, sessions[i].session_id = s, s \notin met
      PROVE  /\ s \notin stale' => Ordered(s, i)'
             /\ s \notin torn' => Paired(s, i)'
  <2>1. i = slot[w] /\ sessions'[i].st = sessions[i].st /\ sessions'[i].hand = local[w].hand
    BY <1>a, <1>1, OwnSlot DEF SaveHand, TypeOK
  <2>2. s \notin stale' => Ordered(s, i)'
    <3> SUFFICES ASSUME s \notin stale' PROVE Ordered(s, i)'
      OBVIOUS
    <3>1. Ordered(s, i) /\ w = heir[s]
      BY <1>b, <1>1 DEF OrderInv
    <3>2. local[w].st.sid = s /\ sessions[i].st = local[w].st
      BY <1>0, <1>a, <3>1 DEF Ordered, Follows
    <3>3. acked[s] \in Nat /\ local[w].st.n \in Nat
      BY <1>b DEF TypeOK, States
    <3>4. acked'[s] > 0 => acked'[s] <= local[w].st.n
      BY <1>d, <3>1, <3>2, <3>3 DEF Ordered
    <3>5. ASSUME NEW v \in Workers, my_sid[v] = s PROVE Follows(v, s, sessions[i])'
      <4>1. Follows(v, s, sessions[i])
        BY <3>1, <3>5 DEF Ordered
      <4>2. CASE v = w
        BY <1>0, <1>a, <1>c, <2>1, <3>2, <4>2 DEF Follows
      <4>3. CASE v # w
        BY <1>0, <1>a, <2>1, <3>1, <4>1, <4>3 DEF Follows
      <4> QED BY <4>2, <4>3
    <3> QED BY <1>0, <2>1, <3>2, <3>4, <3>5 DEF Ordered
  <2>3. s \notin torn' => Paired(s, i)'
    <3> SUFFICES ASSUME s \notin torn PROVE Paired(s, i)'
      BY <1>0
    <3>1. Paired(s, i)
      BY <1>b, <1>1 DEF TearInv
    <3>2. /\ local[w].st.sid = s /\ local[w].hand = HandOf(local[w].st)
          /\ sessions[i].st = local[w].st
          /\ \A v \in Workers : v # w /\ my_sid[v] = s => pc[v] \notin {"save_hand", "load_hand"}
      BY <1>0, <1>a, <3>1 DEF Paired, Pairs
    <3>3. ASSUME NEW v \in Workers, my_sid[v] = s PROVE Pairs(v, s, sessions[i])'
      <4>1. Pairs(v, s, sessions[i])
        BY <3>1, <3>3 DEF Paired
      <4>2. CASE v = w
        BY <1>0, <1>a, <1>c, <3>2, <4>2 DEF Pairs
      <4>3. CASE v # w
        BY <1>0, <1>a, <3>2, <3>3, <4>1, <4>3 DEF Pairs
      <4> QED BY <4>2, <4>3
    <3> QED BY <1>0, <2>1, <3>2, <3>3 DEF Paired
  <2> QED BY <2>2, <2>3
<1>3. /\ local' \in [Workers -> [st : States, hand : Hands]]
      /\ slot' \in [Workers -> Slots] /\ torn \subseteq torn' /\ torn' \subseteq Workers
  BY <1>0 DEF TypeOK
<1> QED BY <1>0, <1>a, <1>b, <1>c, <1>d, <1>1, <1>3, Inside

(* RESUME_REQ, the first copy: the worker becomes the session's heir.      *)
LEMMA ResumeInv ==
  ASSUME IInv, NEW w \in Workers, NEW sid \in Workers, Resume(w, sid)
  PROVE  IInv'
<1> USE DEF IInv, Names
<1> DEFINE k == FindSlot(sid)
<1>0. /\ pc[w] = "new" /\ acked[sid] > 0 /\ Found(sid)
      /\ slot' = [slot EXCEPT ![w] = k] /\ my_sid' = [my_sid EXCEPT ![w] = sid]
      /\ heir' = [heir EXCEPT ![sid] = w] /\ local' = [local EXCEPT ![w].st = sessions[k].st]
      /\ torn' = IF Other(w, sid, {"save_hand"}) THEN torn \union {sid} ELSE torn
      /\ pc' = [pc EXCEPT ![w] = "load_hand"]
      /\ UNCHANGED <<sessions, acked, claims, met, stale>>
  BY DEF Resume, Goto
<1>a. /\ k \in Slots /\ sessions[k].session_id = sid /\ sid # NO_SID
      /\ my_sid[sid] = sid /\ my_sid[w] = NO_SID /\ w # sid
  <2>1. sid # NO_SID
    BY StoreAssumption
  <2>2. k \in Slots /\ sessions[k].session_id = sid
    BY <1>0, <2>1, FoundSlot
  <2>3. my_sid[sid] = sid /\ my_sid[w] = NO_SID
    BY <1>0 DEF SidInv
  <2> QED BY <2>1, <2>2, <2>3
<1>b. /\ pc'[w] = "load_hand" /\ slot'[w] = k /\ my_sid'[w] = sid /\ heir'[sid] = w
      /\ \A v \in Workers : v # w => /\ pc'[v] = pc[v] /\ slot'[v] = slot[v]
                                     /\ my_sid'[v] = my_sid[v] /\ local'[v] = local[v]
      /\ \A s \in Workers : s # sid => heir'[s] = heir[s]
      /\ local'[w].st = sessions[k].st
  BY <1>0 DEF TypeOK
<1>1. TypeOK'
  <2>1. sessions[k].st \in States
    BY <1>a DEF TypeOK
  <2>2. local' \in [Workers -> [st : States, hand : Hands]]
    BY <1>0, <2>1, ZenonT(60) DEF TypeOK
  <2>3. /\ pc' \in [Workers -> Locations] /\ slot' \in [Workers -> Slots]
        /\ my_sid' \in [Workers -> Sids] /\ heir' \in [Workers -> Sids] /\ torn' \subseteq Workers
    BY <1>0, <1>a DEF TypeOK, Locations, Sids
  <2> QED BY <1>0, <2>2, <2>3 DEF TypeOK
<1>2. SidInv'
  <2>1. \A v \in Workers : pc'[v] \in Allocating \union {"new", "full"} => my_sid'[v] = NO_SID
    BY <1>b DEF SidInv, Allocating
  <2>2. \A v \in Workers : pc'[v] \in Active => my_sid'[v] # NO_SID
    BY <1>a, <1>b DEF SidInv
  <2>3. \A v \in Workers : my_sid'[v] # NO_SID => my_sid'[my_sid'[v]] = my_sid'[v]
    <3>1. my_sid'[my_sid'[w]] = my_sid'[w]
      BY <1>a, <1>b
    <3>2. ASSUME NEW v \in Workers, v # w, my_sid[v] # NO_SID
          PROVE  my_sid'[my_sid'[v]] = my_sid'[v]
      <4>1. my_sid[v] \in Workers /\ my_sid[my_sid[v]] = my_sid[v]
        BY <3>2 DEF SidInv, TypeOK, Sids
      <4>2. my_sid[v] # w
        BY <1>a, <3>2, <4>1
      <4> QED BY <1>b, <3>2, <4>1, <4>2
    <3> QED BY <1>b, <3>1, <3>2
  <2>4. \A v \in Workers : pc'[v] = "load_hand" => acked'[my_sid'[v]] > 0
    BY <1>0, <1>b DEF SidInv
  <2>5. \A s \in Workers : s = w => acked[s] = 0 /\ my_sid'[s] # s
    BY <1>a, <1>b, StoreAssumption DEF SidInv, TypeOK
  <2>6. \A s \in Workers : acked'[s] > 0 => my_sid'[s] = s
    BY <1>0, <1>b, <2>5 DEF SidInv
  <2>7. \A s \in Workers : my_sid'[s] = s => heir'[s] \in Workers /\ my_sid'[heir'[s]] = s
    <3> SUFFICES ASSUME NEW s \in Workers, my_sid'[s] = s
                 PROVE  heir'[s] \in Workers /\ my_sid'[heir'[s]] = s
      OBVIOUS
    <3>1. my_sid[s] = s
      BY <1>b, <2>5
    <3>2. CASE s = sid
      BY <1>b, <3>2
    <3>3. CASE s # sid
      <4>1. heir[s] \in Workers /\ my_sid[heir[s]] = s /\ heir[s] # w
        BY <1>a, <3>1, StoreAssumption DEF SidInv
      <4> QED BY <1>b, <3>3, <4>1
    <3> QED BY <3>2, <3>3
  <2> QED BY <2>1, <2>2, <2>3, <2>4, <2>6, <2>7 DEF SidInv
<1>3. NameInv'
  <2>1. \A s \in Workers : my_sid'[s] = s <=> my_sid[s] = s
    BY <1>a, <1>b, StoreAssumption
  <2>2. \A i \in Slots : sessions[i].session_id # NO_SID => sessions[i].session_id \in Workers
    BY DEF TypeOK, Sids
  <2> QED BY <1>0, <2>1, <2>2 DEF NameInv
<1>4. TakeInv'
  BY <1>0, <1>b DEF TakeInv, Taking
<1>5. UseInv'
  BY <1>0, <1>a, <1>b DEF UseInv, Using
<1>6. CountInv'
  BY <1>0, <1>b DEF CountInv
<1>7. ASSUME NEW s \in Workers, NEW i \in Slots, sessions[i].session_id = s, s # sid
      PROVE  (Ordered(s, i) => Ordered(s, i)') /\ (Paired(s, i) => Paired(s, i)')
  <2>1. my_sid[w] # s /\ my_sid'[w] # s
    BY <1>a, <1>b, <1>7, StoreAssumption
  <2> QED BY <1>0, <1>b, <1>7, <2>1, Elsewhere
<1>8. OrderInv'
  <2> SUFFICES ASSUME NEW s \in Workers \ (met \union stale), NEW i \in Slots,
                      sessions[i].session_id = s
               PROVE  Ordered(s, i)'
    BY <1>0 DEF OrderInv
  <2>1. CASE s = sid
    <3>1. Ordered(s, i) /\ i = k
      BY <1>a, <2>1 DEF OrderInv, NameInv
    <3>2. sessions[i].st.sid = s /\ acked[s] <= sessions[i].st.n
      BY <1>0, <2>1, <3>1 DEF Ordered
    <3>3. ASSUME NEW v \in Workers, my_sid'[v] = s PROVE Follows(v, s, sessions[i])'
      <4>1. CASE v = w
        <5>1. sessions[k].st.n \in Nat
          BY <1>a DEF TypeOK, States
        <5> QED BY <1>0, <1>b, <3>1, <3>2, <4>1, <5>1 DEF Follows
      <4>2. CASE v # w
        <5>1. Follows(v, s, sessions[i])
          BY <1>b, <3>1, <3>3, <4>2 DEF Ordered
        <5> QED BY <1>0, <1>b, <2>1, <4>2, <5>1 DEF Follows
      <4> QED BY <4>1, <4>2
    <3> QED BY <1>0, <3>2, <3>3 DEF Ordered
  <2>2. CASE s # sid
    BY <1>7, <2>2 DEF OrderInv
  <2> QED BY <2>1, <2>2
<1>9. TearInv'
  <2> SUFFICES ASSUME NEW s \in Workers \ (met \union torn'), NEW i \in Slots,
                      sessions[i].session_id = s
               PROVE  Paired(s, i)'
    BY <1>0 DEF TearInv
  <2>1. s \notin torn
    BY <1>0
  <2>2. CASE s = sid
    <3>1. Paired(s, i) /\ i = k
      BY <1>a, <2>1, <2>2 DEF TearInv, NameInv
    <3>2. \A v \in Workers : v # w /\ my_sid[v] = s => pc[v] # "save_hand"
      BY <1>0, <2>2 DEF Other
    <3>3. ASSUME NEW v \in Workers, my_sid'[v] = s PROVE Pairs(v, s, sessions[i])'
      <4>1. CASE v = w
        BY <1>0, <1>b, <3>1, <4>1 DEF Pairs
      <4>2. CASE v # w
        <5>1. Pairs(v, s, sessions[i]) /\ pc[v] # "save_hand"
          BY <1>b, <3>1, <3>2, <3>3, <4>2 DEF Paired
        <5> QED BY <1>0, <1>b, <4>2, <5>1 DEF Pairs
      <4> QED BY <4>1, <4>2
    <3>4. \A v \in Workers : my_sid[v] = s => pc[v] # "save_hand"
      BY <1>0, <3>2
    <3> QED BY <1>0, <3>1, <3>3, <3>4 DEF Paired
  <2>3. CASE s # sid
    BY <1>7, <2>1, <2>3 DEF TearInv
  <2> QED BY <2>2, <2>3
<1> QED BY <1>1, <1>2, <1>3, <1>4, <1>5, <1>6, <1>8, <1>9

(* The second copy of a load, and the board sent with RESUME_RESP.         *)
LEMMA LoadHandInv ==
  ASSUME IInv, NEW w \in Workers, LoadHand(w)
  PROVE  IInv'
<1> USE DEF IInv, Names
<1> DEFINE s == my_sid[w]
<1>0. /\ pc[w] = "load_hand" /\ Show(w) /\ local' = [local EXCEPT ![w].hand = sessions[slot[w]].hand]
      /\ UNCHANGED <<sessions, slot, my_sid, heir, claims, met, stale, torn>>
  BY DEF LoadHand, Resumed, mishaps
<1>c. PICK l \in {"ai", "serve"} : pc' = [pc EXCEPT ![w] = l]
  BY DEF LoadHand, Resumed, Goto
<1>a. /\ pc[w] \in Active /\ pc[w] \in Using /\ l \in Active \ {"load_hand"} /\ l \notin Using
      /\ pc'[w] = l /\ \A v \in Workers : v # w => pc'[v] = pc[v]
  BY <1>0, <1>c DEF Active, Using, TypeOK
<1>b. s \in Workers /\ slot[w] \in Slots
  BY <1>a, AtHome DEF TypeOK
<1>d. /\ acked' \in [Workers -> Nat]
      /\ \A v \in Workers : (v # s => acked'[v] = acked[v]) /\ acked'[v] >= acked[v]
      /\ acked'[s] = acked[s] \/ acked'[s] = local[w].st.n
  BY <1>0, <1>b, ShowIs
<1>e. /\ local'[w].st = local[w].st /\ local'[w].hand = sessions[slot[w]].hand
      /\ \A v \in Workers : v # w => local'[v] = local[v]
      /\ acked[s] > 0
  BY <1>0 DEF TypeOK, SidInv
<1>1. ASSUME NEW i \in Slots, sessions[i].session_id = s, s \notin met
      PROVE  /\ s \notin stale' => Ordered(s, i)'
             /\ s \notin torn' => Paired(s, i)'
  <2>1. i = slot[w]
    BY <1>a, <1>1, OwnSlot
  <2>2. s \notin stale' => Ordered(s, i)'
    <3> SUFFICES ASSUME s \notin stale PROVE Ordered(s, i)'
      BY <1>0
    <3>1. Ordered(s, i)
      BY <1>b, <1>1 DEF OrderInv
    <3>2. /\ sessions[i].st.sid = s /\ acked[s] <= sessions[i].st.n
          /\ local[w].st.n <= sessions[i].st.n
      BY <1>0, <1>e, <3>1 DEF Ordered, Follows
    <3>3. acked'[s] <= sessions[i].st.n
      BY <1>d, <3>2
    <3>4. ASSUME NEW v \in Workers, my_sid[v] = s PROVE Follows(v, s, sessions[i])'
      <4>1. Follows(v, s, sessions[i])
        BY <3>1, <3>4 DEF Ordered
      <4>2. CASE v = w
        BY <1>0, <1>a, <1>c, <1>e, <2>1, <4>1, <4>2 DEF Follows
      <4>3. CASE v # w
        <5>1. acked[s] # 0
          BY <1>b, <1>e DEF TypeOK
        <5> QED BY <1>0, <1>a, <1>e, <4>1, <4>3, <5>1 DEF Follows
      <4> QED BY <4>2, <4>3
    <3> QED BY <1>0, <3>2, <3>3, <3>4 DEF Ordered
  <2>3. s \notin torn' => Paired(s, i)'
    <3> SUFFICES ASSUME s \notin torn PROVE Paired(s, i)'
      BY <1>0
    <3>1. Paired(s, i)
      BY <1>b, <1>1 DEF TearInv
    <3>2. ASSUME NEW v \in Workers, my_sid[v] = s PROVE pc[v] # "save_hand"
      BY <1>0, <3>1, <3>2 DEF Paired, Pairs
    <3>3. sessions[i].st.sid = s /\ sessions[i].hand = HandOf(sessions[i].st)
      BY <1>b, <1>e, <3>1, <3>2 DEF Paired, TypeOK
    <3>4. ASSUME NEW v \in Workers, my_sid[v] = s PROVE Pairs(v, s, sessions[i])'
      <4>1. Pairs(v, s, sessions[i]) /\ pc[v] # "save_hand"
        BY <3>1, <3>2, <3>4 DEF Paired
      <4>2. CASE v = w
        <5>1. sessions[i].st = local[w].st
          BY <1>0, <4>1, <4>2 DEF Pairs
        <5> QED BY <1>0, <1>a, <1>c, <1>e, <2>1, <3>3, <4>2, <5>1 DEF Pairs
      <4>3. CASE v # w
        BY <1>0, <1>a, <1>e, <4>1, <4>3 DEF Pairs
      <4> QED BY <4>2, <4>3
    <3> QED BY <1>0, <3>3, <3>4 DEF Paired
  <2> QED BY <2>2, <2>3
<1>2. local' \in [Workers -> [st : States, hand : Hands]]
  <2>1. sessions[slot[w]].hand \in Hands
    BY <1>b DEF TypeOK
  <2> QED BY <1>0, <2>1, ZenonT(60) DEF TypeOK
<1>3. /\ sessions' \in [Slots -> [valid : BOOLEAN, session_id : Sids, st : States, hand : Hands]]
      /\ slot' \in [Workers -> Slots]
      /\ stale' \subseteq Workers /\ torn' \subseteq Workers
  BY <1>0 DEF TypeOK
<1> QED BY <1>0, <1>a, <1>b, <1>c, <1>d, <1>e, <1>1, <1>2, <1>3, Inside
-----------------------------------------------------------------------------
LEMMA InitInv == Init => IInv
<1> SUFFICES ASSUME Init PROVE IInv
  OBVIOUS
<1>1. ZeroSt \in States /\ ZeroHand \in Hands /\ 0 \in Slots
  BY StoreAssumption DEF ZeroSt, ZeroHand, States, Hands, Sids, Slots
<1>2. TypeOK
  BY <1>1 DEF Init, TypeOK, Locations, Sids
<1>3. SidInv /\ NameInv /\ TakeInv /\ UseInv
  BY StoreAssumption
  DEF Init, SidInv, NameInv, TakeInv, UseInv, Allocating, Active, Using, Taking
<1>4. CountInv
  <2>1. \A i \in Slots : ~sessions[i].valid
    BY DEF Init
  <2>2. {i \in Slots : sessions[i].valid} = {} /\ claims = {}
    BY <2>1 DEF Init
  <2>3. \A w \in Workers : slot[w] = 0 /\ pc[w] = "new"
    BY DEF Init
  <2>4. \A j \in Slots : ~(j < 0)
    BY DEF Slots
  <2> QED BY <2>2, <2>3, <2>4, FS_EmptySet DEF CountInv
<1>5. OrderInv /\ TearInv
  BY StoreAssumption DEF Init, OrderInv, TearInv
<1> QED BY <1>2, <1>3, <1>4, <1>5 DEF IInv, Names

LEMMA NextInv == IInv /\ [Next]_vars => IInv'
<1> SUFFICES ASSUME IInv, [Next]_vars PROVE IInv'
  OBVIOUS
<1>1. CASE Next
  <2> PICK w \in Workers :
        \/ Login(w) \/ AllocCheck(w) \/ AllocClaim(w) \/ AllocName(w)
        \/ SaveFind(w) \/ SaveSt(w) \/ SaveHand(w)
        \/ \E op \in {"PLAY_CARD", "END_TURN"} : Command(w, op)
        \/ AiTurn(w) \/ (\E sid \in Workers : Resume(w, sid)) \/ LoadHand(w)
        \/ Exit(w) \/ Kill(w)
    BY <1>1 DEF Next
  <2> QED BY LoginInv, AllocCheckInv, AllocClaimInv, AllocNameInv, SaveFindInv, SaveStInv,
             SaveHandInv, CommandInv, AiTurnInv, ResumeInv, LoadHandInv, ExitInv, KillInv
<1>2. CASE UNCHANGED vars
  BY <1>2
  DEF vars, store, mishaps, IInv, Names, TypeOK, SidInv, NameInv, TakeInv, UseInv, CountInv,
      OrderInv, Ordered, Follows, TearInv, Paired, Pairs, Found, Entry
<1> QED BY <1>1, <1>2

LEMMA Invariance == Spec => []IInv
  BY InitInv, NextInv, PTL DEF Spec

(* Every access of the lock-free loops stays within the array and every    *)
(* variable within its type, whatever the workers do at the same time.     *)
THEOREM TypeCorrect == Spec => []TypeOK
<1>1. IInv => TypeOK
  BY DEF IInv, Names
<1> QED BY <1>1, Invariance, PTL

(* A session whose login met no other in its slot and that no worker saved *)
(* after it was resumed is found, and holds at least what any client was   *)
(* sent; at rest exactly what its last worker has.                         *)
THEOREM AckedTheorem == Spec => []AckedIsStored
<1>1. IInv => AckedIsStored
  <2> SUFFICES ASSUME IInv, NEW sid \in Workers \ (met \union stale), acked[sid] > 0
               PROVE  /\ Found(sid)
                      /\ sessions[FindSlot(sid)].st.sid = sid
                      /\ sessions[FindSlot(sid)].st.n >= acked[sid]
                      /\ pc[heir[sid]] = "serve" =>
                           /\ sessions[FindSlot(sid)].st = local[heir[sid]].st
                           /\ sessions[FindSlot(sid)].hand = local[heir[sid]].hand
    BY DEF AckedIsStored
  <2> USE DEF IInv, Names
  <2>1. sid # NO_SID /\ my_sid[sid] = sid /\ heir[sid] \in Workers /\ my_sid[heir[sid]] = sid
    BY StoreAssumption DEF SidInv
  <2>2. PICK i \in Slots : sessions[i].session_id = sid
    BY <2>1 DEF NameInv
  <2>3. Found(sid) /\ FindSlot(sid) = i
    BY <2>1, <2>2, FindIs
  <2>4. Ordered(sid, i)
    BY <2>2 DEF OrderInv
  <2>5. sessions[i].st.n \in Nat /\ acked[sid] \in Nat
    BY DEF TypeOK, States
  <2> QED BY <2>1, <2>3, <2>4, <2>5 DEF Ordered, Follows
<1> QED BY <1>1, Invariance, PTL

(* A waiting worker of such a session holds a board and the hand that goes *)
(* with it, unless a copy of that session was cut in two.                  *)
THEOREM WholeTheorem == Spec => []ResumedWhole
<1>1. IInv => ResumedWhole
  <2> SUFFICES ASSUME IInv, NEW w \in Workers, pc[w] = "serve", my_sid[w] \notin met \union torn
               PROVE  local[w].st.sid = my_sid[w] /\ local[w].hand = HandOf(local[w].st)
    BY DEF ResumedWhole
  <2> USE DEF IInv, Names
  <2>1. my_sid[w] \in Workers /\ my_sid[w] # NO_SID /\ my_sid[my_sid[w]] = my_sid[w]
    BY AtHome DEF Active
  <2>2. PICK i \in Slots : sessions[i].session_id = my_sid[w]
    BY <2>1 DEF NameInv
  <2>3. Pairs(w, my_sid[w], sessions[i])
    BY <2>1, <2>2 DEF TearInv, Paired
  <2> QED BY <2>3 DEF Pairs, Active
<1> QED BY <1>1, Invariance, PTL

(* "server full" means that as many other logins as there are slots got    *)
(* past the claim of one, however they raced and wherever they were killed.*)
THEOREM SlotsTheorem == Spec => []NoSlotWasted
<1>1. IInv => NoSlotWasted
  <2> SUFFICES ASSUME IInv, NEW w \in Workers, pc[w] = "full"
               PROVE  Cardinality(claims \ {w}) >= MAX_SESSIONS
    BY DEF NoSlotWasted
  <2> USE DEF IInv, Names
  <2>1. {i \in Slots : sessions[i].valid} = Slots /\ claims \ {w} = claims
    BY DEF CountInv
  <2>2. Cardinality(Slots) <= Cardinality(claims)
    BY <2>1 DEF CountInv
  <2>3. Cardinality(claims) \in Nat
    BY FiniteSides, FS_CardinalityType
  <2> QED BY <2>1, <2>2, <2>3, FiniteSides, StoreAssumption
<1> QED BY <1>1, Invariance, PTL

=============================================================================
