---------------------------- MODULE SessionStore ----------------------------
(***************************************************************************)
(* The shared-memory session store of src/src/common/ipc.c, used without   *)
(* locks by the worker processes of src/src/server.c: any number of them   *)
(* log in, resume the same session, save and are killed at the same time.  *)
(* Every store to the segment that another process can see separately is a *)
(* step of its own.                                                        *)
(*                                                                         *)
(* Of a state_t the model keeps which session made it, the number of the   *)
(* save that wrote it, which hand it goes with and whose turn it is; of a  *)
(* hand_t which session dealt it, and when.  last_seen is written by every *)
(* operation and read by none: left out.                                   *)
(*                                                                         *)
(* There is no lock, so games do get lost.  The history variables record   *)
(* the three mishaps that can lose or mix one up, for the session they     *)
(* happen to, and the properties say that nothing else can.                *)
(***************************************************************************)
EXTENDS Integers, FiniteSets

CONSTANTS
  Workers,         \* processes that log in or resume, one per connection
  MAX_SESSIONS,    \* slots of the store (128 in ipc.h)
  MaxSaves         \* bound: the number of a save from which no command follows

VARIABLES
  sessions,   \* shm_store_t.sessions: slot -> session_entry_t
  pc,         \* where each worker is
  slot,       \* its loop variable i
  my_sid,     \* its session id
  local,      \* its own st and hand
  heir,       \* history: the worker that logged in to or resumed a session last
  acked,      \* history: the newest save of a session its clients were sent
  claims,     \* history: the logins that got past valid = 1
  met,        \* history: logins that found a slot free that another was claiming
  stale,      \* history: sessions saved by a worker after they were resumed
  torn        \* history: sessions with a copy of st and hand cut in two

store == <<sessions, slot, my_sid, local>>
mishaps == <<met, stale, torn>>
vars == <<store, pc, heir, acked, claims, mishaps>>

Slots  == 0..(MAX_SESSIONS - 1)
NO_SID == "none"
Sids   == Workers \union {NO_SID}

ASSUME StoreAssumption ==
  /\ MAX_SESSIONS \in Nat \ {0}
  /\ MaxSaves \in Nat
  /\ IsFiniteSet(Workers) /\ NO_SID \notin Workers

(* A state_t: the n-th save of session sid, with the hand dealt at `deal'. *)
States == [sid : Sids, n : Nat, deal : Nat, turn : {0, 1}]
Hands  == [sid : Sids, deal : Nat]
HandOf(st) == [sid |-> st.sid, deal |-> st.deal]

ZeroSt   == [sid |-> NO_SID, n |-> 0, deal |-> 0, turn |-> 0]
ZeroHand == [sid |-> NO_SID, deal |-> 0]

Allocating == {"check", "claim", "name"}
Locations  == Allocating \union
  {"new", "full", "find", "save_st", "save_hand", "load_hand", "ai", "serve", "exit", "killed"}

Entry(i, sid) == sessions[i].valid /\ sessions[i].session_id = sid

(* The slot the search loops of save and load stop at.                     *)
Found(sid) == \E i \in Slots : Entry(i, sid)
FindSlot(sid) == CHOOSE i \in Slots : Entry(i, sid) /\ \A j \in Slots : Entry(j, sid) => i <= j

Goto(w, l) == pc' = [pc EXCEPT ![w] = l]

(* Another worker of w's session is at one of the given places.            *)
Other(w, sid, places) == \E v \in Workers \ {w} : my_sid[v] = sid /\ pc[v] \in places

(* The client of w is sent w's board.                                      *)
Show(w) == acked' = [acked EXCEPT ![my_sid[w]] = IF @ < local[w].st.n THEN local[w].st.n ELSE @]

(* After a save: END_TURN goes on with the AI's turn, all else is answered *)
(* and the worker is back in proto_recv.                                   *)
Saved(w) ==
  \/ local[w].st.turn = 1 /\ Goto(w, "ai") /\ UNCHANGED acked
  \/ local[w].st.turn = 0 /\ Goto(w, "serve") /\ Show(w)

(* After a load: the board is sent as it is, then the AI may have to play. *)
Resumed(w) == Goto(w, IF local[w].st.turn = 1 THEN "ai" ELSE "serve") /\ Show(w)
-----------------------------------------------------------------------------
(* ipc_store_init(1): all slots zeroed before the first connection.        *)
Init ==
  /\ sessions = [i \in Slots |-> [valid |-> FALSE, session_id |-> NO_SID,
                                  st |-> ZeroSt, hand |-> ZeroHand]]
  /\ pc       = [w \in Workers |-> "new"]
  /\ slot     = [w \in Workers |-> 0]
  /\ my_sid   = [w \in Workers |-> NO_SID]
  /\ local    = [w \in Workers |-> [st |-> ZeroSt, hand |-> ZeroHand]]
  /\ heir     = [w \in Workers |-> NO_SID]
  /\ acked    = [w \in Workers |-> 0]
  /\ claims = {} /\ met = {} /\ stale = {} /\ torn = {}

(* LOGIN_REQ: the worker makes a new game and enters ipc_alloc_session.    *)
Login(w) ==
  /\ pc[w] = "new"
  /\ Goto(w, "check")
  /\ UNCHANGED <<store, heir, acked, claims, mishaps>>

(* w meets the workers that also found this slot free and have not yet     *)
(* marked it as taken.                                                     *)
MeetRivals(w) ==
  LET rivals == {v \in Workers \ {w} : pc[v] = "claim" /\ slot[v] = slot[w]}
  IN  met' = IF rivals = {} THEN met ELSE met \union rivals \union {w}

\* mutant: the loop runs one slot too far
AllocCheckFar(w) ==
  /\ pc[w] = "check"
  /\ IF ~sessions[slot[w]].valid
       THEN Goto(w, "claim") /\ MeetRivals(w) /\ UNCHANGED slot
       ELSE slot' = [slot EXCEPT ![w] = @ + 1] /\ UNCHANGED <<pc, met>>
  /\ UNCHANGED <<sessions, my_sid, local, heir, acked, claims, stale, torn>>

(* if (!store->sessions[i].valid): go on to the next slot, or give up ...  *)
AllocCheck(w) ==
  /\ pc[w] = "check"
  /\ \/ /\ ~sessions[slot[w]].valid
        /\ Goto(w, "claim")
        /\ MeetRivals(w)
        /\ UNCHANGED slot
     \/ /\ sessions[slot[w]].valid
        /\ slot[w] + 1 < MAX_SESSIONS
        /\ slot' = [slot EXCEPT ![w] = @ + 1]
        /\ UNCHANGED <<pc, met>>
     \/ /\ sessions[slot[w]].valid
        /\ slot[w] + 1 = MAX_SESSIONS
        /\ Goto(w, "full")
        /\ UNCHANGED <<slot, met>>
  /\ UNCHANGED <<sessions, my_sid, local, heir, acked, claims, stale, torn>>

(* ... valid = 1 ...                                                       *)
AllocClaim(w) ==
  /\ pc[w] = "claim"
  /\ sessions' = [sessions EXCEPT ![slot[w]].valid = TRUE]
  /\ claims' = claims \union {w}
  /\ Goto(w, "name")
  /\ UNCHANGED <<slot, my_sid, local, heir, acked, mishaps>>

\* mutant: the loop goes on after the slot was taken
AllocNameGoesOn(w) ==
  /\ pc[w] = "name"
  /\ sessions' = [sessions EXCEPT ![slot[w]].session_id = w]
  /\ heir' = [heir EXCEPT ![w] = w]
  /\ IF slot[w] + 1 < MAX_SESSIONS
       THEN slot' = [slot EXCEPT ![w] = @ + 1] /\ Goto(w, "check") /\ UNCHANGED <<my_sid, local>>
       ELSE /\ my_sid' = [my_sid EXCEPT ![w] = w]
            /\ local' = [local EXCEPT ![w].st = [sid |-> w, n |-> 1, deal |-> 1, turn |-> 0],
                                      ![w].hand = [sid |-> w, deal |-> 1]]
            /\ Goto(w, "find") /\ UNCHANGED slot
  /\ UNCHANGED <<acked, claims, mishaps>>

(* ... session_id = sid, built from the time, the slot, the pid and rand() *)
(* so that no two are equal.  The new game becomes the first save.         *)
AllocName(w) ==
  /\ pc[w] = "name"
  /\ sessions' = [sessions EXCEPT ![slot[w]].session_id = w]
  /\ my_sid' = [my_sid EXCEPT ![w] = w]
  /\ heir' = [heir EXCEPT ![w] = w]
  /\ local' = [local EXCEPT ![w].st = [sid |-> w, n |-> 1, deal |-> 1, turn |-> 0],
                            ![w].hand = [sid |-> w, deal |-> 1]]
  /\ Goto(w, "find")
  /\ UNCHANGED <<slot, acked, claims, mishaps>>

\* mutant: the search stops at the first valid slot, whatever its id
SaveFindAny(w) ==
  /\ pc[w] = "find"
  /\ \E i \in Slots :
       /\ sessions[i].valid
       /\ \A j \in Slots : sessions[j].valid => i <= j
       /\ slot' = [slot EXCEPT ![w] = i]
  /\ Goto(w, "save_st")
  /\ UNCHANGED <<sessions, my_sid, local, heir, acked, claims, mishaps>>

(* ipc_save_session: the search, whose failure nobody looks at ...         *)
SaveFind(w) ==
  /\ pc[w] = "find"
  /\ \/ /\ Found(my_sid[w])
        /\ slot' = [slot EXCEPT ![w] = FindSlot(my_sid[w])]
        /\ Goto(w, "save_st")
        /\ UNCHANGED acked
     \/ /\ ~Found(my_sid[w])
        /\ Saved(w)
        /\ UNCHANGED slot
  /\ UNCHANGED <<sessions, my_sid, local, heir, claims, mishaps>>

(* A worker that is not the last one of its session saves.                 *)
Overtaken(w) == stale' = IF heir[my_sid[w]] = w THEN stale ELSE stale \union {my_sid[w]}

(* ... and the two struct assignments.                                     *)
SaveSt(w) ==
  /\ pc[w] = "save_st"
  /\ sessions' = [sessions EXCEPT ![slot[w]].st = local[w].st]
  /\ Overtaken(w)
  /\ torn' = IF Other(w, my_sid[w], {"save_hand", "load_hand"})
               THEN torn \union {my_sid[w]} ELSE torn
  /\ Goto(w, "save_hand")
  /\ UNCHANGED <<slot, my_sid, local, heir, acked, claims, met>>

SaveHand(w) ==
  /\ pc[w] = "save_hand"
  /\ sessions' = [sessions EXCEPT ![slot[w]].hand = local[w].hand]
  /\ Overtaken(w)
  /\ Saved(w)
  /\ UNCHANGED <<slot, my_sid, local, heir, claims, met, torn>>

(* PLAY_CARD changes the board and END_TURN the hand too, which is dealt   *)
(* for the AI (if poison ends the game there, END_TURN changes no more     *)
(* than PLAY_CARD does); both save the new game.                           *)
Command(w, op) ==
  /\ pc[w] = "serve"
  /\ local[w].st.n < MaxSaves
  /\ LET n == local[w].st.n + 1 IN
       \/ /\ op = "PLAY_CARD"
          /\ local' = [local EXCEPT ![w].st.n = n]
       \/ /\ op = "END_TURN"
          /\ local' = [local EXCEPT ![w].st.n = n, ![w].st.deal = n, ![w].st.turn = 1,
                                    ![w].hand = [sid |-> local[w].st.sid, deal |-> n]]
  /\ Goto(w, "find")
  /\ UNCHANGED <<sessions, slot, my_sid, heir, acked, claims, mishaps>>

(* process_ai_turn, after END_TURN was saved or such a save was resumed: a *)
(* new hand for the player, and a save of its own.                         *)
AiTurn(w) ==
  /\ pc[w] = "ai"
  /\ LET n == local[w].st.n + 1 IN
       local' = [local EXCEPT ![w].st.n = n, ![w].st.deal = n, ![w].st.turn = 0,
                              ![w].hand = [sid |-> local[w].st.sid, deal |-> n]]
  /\ Goto(w, "find")
  /\ UNCHANGED <<sessions, slot, my_sid, heir, acked, claims, mishaps>>

(* RESUME_REQ for an id some client was told: ipc_load_session copies st,  *)
(* then hand, whatever the other workers of that session are doing.  An    *)
(* unknown id is answered with ok = 0 and changes nothing.                 *)
Resume(w, sid) ==
  /\ pc[w] = "new"
  /\ acked[sid] > 0
  /\ Found(sid)
  /\ slot' = [slot EXCEPT ![w] = FindSlot(sid)]
  /\ my_sid' = [my_sid EXCEPT ![w] = sid]
  /\ heir' = [heir EXCEPT ![sid] = w]
  /\ local' = [local EXCEPT ![w].st = sessions[FindSlot(sid)].st]
  /\ torn' = IF Other(w, sid, {"save_hand"}) THEN torn \union {sid} ELSE torn
  /\ Goto(w, "load_hand")
  /\ UNCHANGED <<sessions, acked, claims, met, stale>>

\* mutant: the hand is taken from the slot before
LoadHandOff(w) ==
  /\ pc[w] = "load_hand"
  /\ local' = [local EXCEPT ![w].hand = sessions[IF slot[w] = 0 THEN 0 ELSE slot[w] - 1].hand]
  /\ Resumed(w)
  /\ UNCHANGED <<sessions, slot, my_sid, heir, claims, mishaps>>

LoadHand(w) ==
  /\ pc[w] = "load_hand"
  /\ local' = [local EXCEPT ![w].hand = sessions[slot[w]].hand]
  /\ Resumed(w)
  /\ UNCHANGED <<sessions, slot, my_sid, heir, claims, mishaps>>

(* The connection ends: the slot stays valid, nothing ever clears it.      *)
Exit(w) ==
  /\ pc[w] \in {"new", "serve", "full"}
  /\ Goto(w, "exit")
  /\ UNCHANGED <<store, heir, acked, claims, mishaps>>

(* The process is killed anywhere else, between the two copies included.   *)
Kill(w) ==
  /\ pc[w] \notin {"new", "serve", "full", "exit", "killed"}
  /\ torn' = IF pc[w] = "save_hand" THEN torn \union {my_sid[w]} ELSE torn
  /\ Goto(w, "killed")
  /\ UNCHANGED <<store, heir, acked, claims, met, stale>>

Next ==
  \E w \in Workers :
    \/ Login(w)
    \/ AllocCheck(w)
    \/ AllocClaim(w)
    \/ AllocName(w)
    \/ SaveFind(w)
    \/ SaveSt(w)
    \/ SaveHand(w)
    \/ \E op \in {"PLAY_CARD", "END_TURN"} : Command(w, op)
    \/ AiTurn(w)
    \/ \E sid \in Workers : Resume(w, sid)
    \/ LoadHand(w)
    \/ Exit(w)
    \/ Kill(w)

Spec == Init /\ [][Next]_vars
-----------------------------------------------------------------------------
TypeOK ==
  /\ sessions \in [Slots -> [valid : BOOLEAN, session_id : Sids, st : States, hand : Hands]]
  /\ pc \in [Workers -> Locations]
  /\ slot \in [Workers -> Slots]
  /\ my_sid \in [Workers -> Sids]
  /\ local \in [Workers -> [st : States, hand : Hands]]
  /\ heir \in [Workers -> Sids]
  /\ acked \in [Workers -> Nat]
  /\ claims \subseteq Workers /\ met \subseteq Workers
  /\ stale \subseteq Workers /\ torn \subseteq Workers

(* Only two things can lose a game: a login that met another in its slot,  *)
(* and a worker that saves after its session was resumed by another one.   *)
(* Otherwise a RESUME_REQ finds the session, and finds at least what some  *)
(* client was shown of it; when the session's last worker is in proto_recv *)
(* it finds exactly that.  Kills, racing logins of other sessions, full    *)
(* stores and any number of workers beside it change nothing.              *)
AckedIsStored ==
  \A sid \in Workers \ (met \union stale) :
    acked[sid] > 0 =>
      /\ Found(sid)
      /\ LET e == sessions[FindSlot(sid)]
             w == heir[sid]
         IN  /\ e.st.sid = sid /\ e.st.n >= acked[sid]
             /\ pc[w] = "serve" => e.st = local[w].st /\ e.hand = local[w].hand

(* A worker that waits for its player holds one game, board and hand of    *)
(* one save of its own session, however many workers the session has,      *)
(* unless a save or a load of that session was cut in two: by a kill, or   *)
(* by another of its workers between the two copies.                       *)
ResumedWhole ==
  \A w \in Workers :
    pc[w] = "serve" /\ my_sid[w] \notin met \union torn =>
      local[w].st.sid = my_sid[w] /\ local[w].hand = HandOf(local[w].st)

(* A login is refused only after as many others as there are slots got     *)
(* one: none takes two, and neither kills nor racing logins waste any.     *)
NoSlotWasted ==
  \A w \in Workers : pc[w] = "full" => Cardinality(claims \ {w}) >= MAX_SESSIONS

(* A login is refused with "server full" only while other players are      *)
(* connected, or after a worker was killed.                                *)
FullOnlyUnderLoad ==
  \A w \in Workers :
    pc[w] = "full" => \E v \in Workers \ {w} : pc[v] \notin {"new", "exit"}

=============================================================================
