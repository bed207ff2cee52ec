------------------------------ MODULE KvService -------------------------------
(***************************************************************************)
(* What client and server together promise the application: a linearisable *)
(* KV-store.  A call is refused or accepted; an accepted call is executed  *)
(* at most once, in one atomic step, and its callback reports what that    *)
(* step did.  When the session ends the calls without an answer time out,  *)
(* and it is open whether they are executed.                               *)
(*                                                                         *)
(* All this is promised up to the first fault (a response that does not    *)
(* decrypt, or a session that cannot be ended).  After it, values and      *)
(* executions are anyone's guess, but every call still returns once and    *)
(* ends once, with the first status reported for it.                       *)
(***************************************************************************)
EXTENDS ClientServerCommon

VARIABLES
  req,       \* operation and key of every call
  status,    \* what the application knows of every call
  exec,      \* outcome of every call's execution, NotExecuted before it
  store,     \* the map from keys to values
  returned,  \* value handed to the application for every get
  faulty     \* has there been a fault?

kvVars == <<req, status, exec, store, returned, faulty>>

NotExecuted == [ok |-> FALSE, val |-> Garbage]

KvInit ==
  /\ req = [t \in Tags |-> [op |-> "ERR", key |-> NoKey]]
  /\ status = [t \in Tags |-> "unissued"]
  /\ exec = [t \in Tags |-> NotExecuted]
  /\ store = [k \in Keys |-> NoTag]
  /\ returned = [t \in Tags |-> NoTag]
  /\ faulty = FALSE

Invoke(t, op, key) ==
  /\ status[t] = "unissued"
  /\ req' = [req EXCEPT ![t] = [op |-> op, key |-> key]]
  /\ status' = [status EXCEPT ![t] = IF key = NoKey THEN "refused"
                                                    ELSE "called"]
  /\ UNCHANGED <<exec, store, returned, faulty>>

\* The call returns 0 (accepted) or -1 (refused).
Return(t) ==
  /\ status[t] = "called"
  /\ \E s \in {"pending", "refused"} : status' = [status EXCEPT ![t] = s]
  /\ UNCHANGED <<req, exec, store, returned, faulty>>

\* The operation takes effect, between acceptance and answer, or later if
\* the call timed out.
Execute(t) ==
  LET key == req[t].key
      old == store[key]
  IN  /\ status[t] \in {"pending", "TIMEOUT"}
      /\ exec[t] = NotExecuted
      /\ \/ /\ req[t].op = "GET"
            /\ exec' = [exec EXCEPT ![t] = [ok |-> old # NoTag, val |-> old]]
            /\ UNCHANGED store
         \/ /\ req[t].op = "PUT"
            /\ \/ /\ exec' = [exec EXCEPT ![t] = [ok |-> TRUE, val |-> NoTag]]
                  /\ store' = [store EXCEPT ![key] = t]
               \/ /\ exec' = [exec EXCEPT ![t] = [ok |-> FALSE, val |-> NoTag]]
                  /\ UNCHANGED store
         \/ /\ req[t].op = "DELETE"
            /\ exec' = [exec EXCEPT ![t] = [ok |-> old # NoTag, val |-> NoTag]]
            /\ store' = [store EXCEPT ![key] = NoTag]
      /\ UNCHANGED <<req, status, returned, faulty>>

\* The callback reports the outcome; a successful get has filled the buffer.
Complete(t) ==
  /\ status[t] = "pending"
  /\ exec[t] # NotExecuted
  /\ status' = [status EXCEPT ![t] = IF exec[t].ok THEN "OP_SUCCESS"
                                                   ELSE "OP_FAILED"]
  /\ returned' = IF exec[t].ok /\ req[t].op = "GET"
                 THEN [returned EXCEPT ![t] = exec[t].val]
                 ELSE returned
  /\ UNCHANGED <<req, exec, store, faulty>>

\* The session ends, or a fault keeps it from ending.
TimeOut ==
  /\ status' = [t \in Tags |-> IF status[t] = "pending" THEN "TIMEOUT"
                                                        ELSE status[t]]
  /\ faulty' \in {faulty, TRUE}
  /\ UNCHANGED <<req, exec, store, returned>>

\* A response does not decrypt: it ends some pending call, or none, and may
\* spoil the buffer of some get.
Garble ==
  /\ \/ UNCHANGED status
     \/ \E t \in Tags :
          /\ status[t] = "pending"
          /\ status' = [status EXCEPT ![t] = "INVALID_RESPONSE"]
  /\ \/ UNCHANGED returned
     \/ \E t \in Tags :
          /\ req[t].op = "GET"
          /\ returned' = [returned EXCEPT ![t] = Garbage]
  /\ faulty' = TRUE
  /\ UNCHANGED <<req, exec, store>>

Ended == {"refused", "OP_SUCCESS", "OP_FAILED", "TIMEOUT", "INVALID_RESPONSE"}

\* What a step may do to the status of one call.
Progress(s, new) ==
  \/ new = s
  \/ s = "unissued" /\ new \in {"called", "refused"}
  \/ s = "called" /\ new \in {"pending", "refused"}
  \/ s = "pending" /\ new \in Ended \ {"refused"}

\* After a fault.
AfterFault ==
  /\ faulty
  /\ faulty' = TRUE
  /\ \A t \in Tags :
       /\ Progress(status[t], status'[t])
       /\ status[t] # "unissued" => req'[t] = req[t]

KvNext ==
  \/ TimeOut
  \/ Garble
  \/ AfterFault
  \/ \E t \in Tags :
       \/ \E op \in KvOps, key \in Keys \cup {NoKey} : Invoke(t, op, key)
       \/ Return(t)
       \/ Execute(t)
       \/ Complete(t)

KvSpec == KvInit /\ [][KvNext]_kvVars
===============================================================================
