------------------------ MODULE MockHttpTransport ------------------------
(***************************************************************************)
(* MockHttpTransport of src/lib.rs: prepared responses in two tables, each  *)
(* behind a read-write lock, shared by threads that prepare and execute.    *)
(*                                                                         *)
(* Each call enters one lock at most, once, and does not suspend inside it: *)
(* one action per critical section, and one for the beginning of a call, so *)
(* that other calls come between the two.  A Bytes may have an owner whose  *)
(* drop panics; a replaced response is dropped under the write lock, which  *)
(* is how that lock gets poisoned.                                         *)
(***************************************************************************)
CONSTANTS Threads, Urls, Bodies

ASSUME BodiesAssumption ==
    Bodies \cap {"absent", "none", "running", "Ok", "panicked",
                 "ProtocolViolation", "Io"} = {}

VARIABLES
    tables,     \* the contents of gets and posts
    poisoned,   \* which of the two locks is poisoned
    call,       \* the call each thread makes or made last
    answer,     \* what it answered
    could,      \* history: what the entry of an execute has held since it began
    standing,   \* history: what each entry may hold, going by when sets began and
                \* ended
    rival       \* history: of a set that runs, the bodies of the sets on its
                \* entry, itself among them, that have run beside it

history == <<standing, rival>>
vars == <<tables, poisoned, call, answer, could, history>>

Methods == {"GET", "POST"}

\* "other" is a method that is neither in any case of letters.
Sets == [op : {"set"}, method : Methods, url : Urls, body : Bodies]
Executes == [op : {"execute"}, method : Methods \cup {"other"}, url : Urls]
Idle == [op |-> "idle"]

Init ==
    /\ tables = [m \in Methods |-> [u \in Urls |-> "absent"]]
    /\ poisoned = [m \in Methods |-> FALSE]
    /\ call = [t \in Threads |-> Idle]
    /\ answer = [t \in Threads |-> "none"]
    /\ could = [t \in Threads |-> {}]
    /\ standing = [m \in Methods |-> [u \in Urls |-> {"absent"}]]
    /\ rival = [t \in Threads |-> {}]

-----------------------------------------------------------------------------
Running(t, op) == answer[t] = "running" /\ call[t].op = op

Return(t, a) == answer' = [answer EXCEPT ![t] = a]

Entry(c) == tables[c.method][c.url]

\* Calls on the same entry of the same table.
SameEntry(c, d) == c # Idle /\ d # Idle /\ c.method = d.method /\ c.url = d.url

\* Thread s is in a set, an execute, on the entry of c.
On(s, op, c) == Running(s, op) /\ SameEntry(call[s], c)

\* A set that runs may have taken effect already, and so may those beside it.
BeginsSet(t, c) ==
    /\ standing' = [standing EXCEPT ![c.method][c.url] = @ \cup {c.body}]
    /\ rival' = [s \in Threads |->
                    IF s = t
                    THEN {c.body} \cup {call[r].body : r \in {r \in Threads : On(r, "set", c)}}
                    ELSE IF On(s, "set", c) THEN rival[s] \cup {c.body} ELSE rival[s]]

\* A set that is over has taken effect: only a set that ran beside it, if not it
\* itself, can have been the last one.
EndsSet(t, c) ==
    /\ standing' = [standing EXCEPT ![c.method][c.url] = @ \cap rival[t]]
    /\ rival' = [rival EXCEPT ![t] = {}]

BeginSet(t) ==
    \E c \in Sets :
        /\ call' = [call EXCEPT ![t] = c]
        /\ could' = [could EXCEPT ![t] = {}]
        /\ BeginsSet(t, c)

BeginExecute(t) ==
    \E c \in Executes :
        /\ call' = [call EXCEPT ![t] = c]
        /\ could' = [could EXCEPT ![t] = IF c.method \in Methods THEN {Entry(c)} ELSE {}]
        /\ UNCHANGED history

Begin(t) ==
    /\ answer[t] # "running"
    /\ Return(t, "running")
    /\ BeginSet(t) \/ BeginExecute(t)
    /\ UNCHANGED <<tables, poisoned>>

\* The entry is written, and everybody who looks for it may see that.
Insert(c) ==
    /\ tables' = [tables EXCEPT ![c.method][c.url] = c.body]
    /\ could' = [s \in Threads |->
                    IF On(s, "execute", c) THEN could[s] \cup {c.body} ELSE could[s]]

\* Mutant: a setter gives up at a poisoned lock.
SetGivesUp(t) ==
    /\ Running(t, "set")
    /\ \/ ~poisoned[call[t].method] /\ Insert(call[t])
       \/ poisoned[call[t].method] /\ UNCHANGED <<tables, could>>
    /\ \/ Return(t, "Ok") /\ UNCHANGED poisoned
       \/ /\ Entry(call[t]) # "absent"
          /\ poisoned' = [poisoned EXCEPT ![call[t].method] = TRUE]
          /\ Return(t, "panicked")
    /\ EndsSet(t, call[t])
    /\ UNCHANGED call

\* set_get and set_post: a poisoned lock is taken all the same.
Set(t) ==
    /\ Running(t, "set")
    /\ Insert(call[t])
    /\ \/ Return(t, "Ok") /\ UNCHANGED poisoned
       \/ /\ Entry(call[t]) # "absent"
          /\ poisoned' = [poisoned EXCEPT ![call[t].method] = TRUE]
          /\ Return(t, "panicked")
    /\ EndsSet(t, call[t])
    /\ UNCHANGED call

\* Mutant: POST is looked up in the table of GET.
ExecuteInGets(t) ==
    /\ Running(t, "execute")
    /\ LET c == call[t]
           found == tables["GET"][c.url]
       IN  \/ c.method \notin Methods /\ Return(t, "ProtocolViolation")
           \/ c.method \in Methods /\ poisoned["GET"] /\ Return(t, "Io")
           \/ /\ c.method \in Methods
              /\ ~poisoned["GET"]
              /\ Return(t, IF found = "absent" THEN "ProtocolViolation" ELSE found)
    /\ UNCHANGED <<tables, poisoned, call, could, history>>

\* execute: the status of a prepared response is always 200.
Execute(t) ==
    /\ Running(t, "execute")
    /\ LET c == call[t]
       IN  \/ c.method \notin Methods /\ Return(t, "ProtocolViolation")
           \/ c.method \in Methods /\ poisoned[c.method] /\ Return(t, "Io")
           \/ /\ c.method \in Methods
              /\ ~poisoned[c.method]
              /\ Return(t, IF Entry(c) = "absent" THEN "ProtocolViolation" ELSE Entry(c))
    /\ UNCHANGED <<tables, poisoned, call, could, history>>

Next == \E t \in Threads : Begin(t) \/ Set(t) \/ Execute(t)

Spec == Init /\ [][Next]_vars

-----------------------------------------------------------------------------
(* Properties.                                                             *)

\* execute answers what the tables held at some moment of the call: a response
\* prepared for this method and URL, no response only if there was none then.
\* It answers Io only when a setter of the same method has panicked.
ExecuteIsCurrent ==
    \A t \in Threads :
        call[t].op = "execute" =>
            /\ answer[t] \in Bodies => answer[t] \in could[t]
            /\ answer[t] = "ProtocolViolation" /\ call[t].method \in Methods =>
                   "absent" \in could[t]
            /\ answer[t] = "Io" => call[t].method \in Methods /\ poisoned[call[t].method]

\* Every entry holds the response of a set that none which began after it had
\* returned has replaced: a set that is over, be it with a panic of its own or at a
\* lock that was poisoned before, has put its response in place, and only the sets
\* that ran beside it can have the last word instead.
SetTakesEffect ==
    \A m \in Methods, u \in Urls : tables[m][u] \in standing[m][u]
=============================================================================
