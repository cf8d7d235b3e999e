--------------------- MODULE MockHttpTransport_proofs ---------------------
(***************************************************************************)
(* Proofs about MockHttpTransport, for any threads, URLs and responses.     *)
(*                                                                         *)
(* ExecuteIsCurrent speaks of a call that is over, SetTakesEffect of what   *)
(* the tables hold.  What makes them inductive is Witnessed, that the       *)
(* history of an execute that runs holds what its entry holds now, and      *)
(* MayStand: the response of a set that runs may stand, and will still when *)
(* one beside it has returned.                                             *)
(***************************************************************************)
EXTENDS MockHttpTransport, TLAPS

Entries == Bodies \cup {"absent"}

\* The types of the variables.
TypeOK ==
    /\ tables \in [Methods -> [Urls -> Entries]]
    /\ poisoned \in [Methods -> BOOLEAN]
    /\ call \in [Threads -> Sets \cup Executes \cup {Idle}]
    /\ answer \in [Threads -> Bodies \cup {"none", "running", "Ok", "panicked",
                                            "ProtocolViolation", "Io"}]
    /\ could \in [Threads -> SUBSET Entries]
    /\ standing \in [Methods -> [Urls -> SUBSET Entries]]
    /\ rival \in [Threads -> SUBSET Entries]

Witnessed ==
    \A t \in Threads :
        Running(t, "execute") /\ call[t].method \in Methods => Entry(call[t]) \in could[t]

MayStand ==
    \A t \in Threads :
        Running(t, "set") =>
            /\ call[t].body \in standing[call[t].method][call[t].url]
            /\ \A s \in Threads : On(s, "set", call[t]) => call[t].body \in rival[s]

\* What is true of executes, and what is true of sets.
ExecutesInv == TypeOK /\ Witnessed /\ ExecuteIsCurrent
SetsInv == MayStand /\ SetTakesEffect

LEMMA Calls ==
    /\ \A c \in Sets : c.op = "set" /\ c.method \in Methods /\ c.url \in Urls
                       /\ c.body \in Bodies /\ c # Idle
    /\ \A c \in Executes : c.op = "execute" /\ c.method \in Methods \cup {"other"}
                           /\ c.url \in Urls /\ c # Idle
    /\ Idle.op = "idle"
  BY DEF Sets, Executes, Idle

\* What thread t knows of the call it is in.
LEMMA CallOf ==
    ASSUME TypeOK, NEW t \in Threads
    PROVE  /\ call[t].op = "set" => call[t] \in Sets
           /\ call[t].op = "execute" => call[t] \in Executes
  BY Calls DEF TypeOK

-----------------------------------------------------------------------------
(* Executes.                                                               *)

LEMMA BeginStep ==
    ASSUME ExecutesInv, NEW t \in Threads, Begin(t)
    PROVE  ExecutesInv'
  <1> USE DEF ExecutesInv, Witnessed, ExecuteIsCurrent
  <1>1. /\ answer' = [answer EXCEPT ![t] = "running"]
        /\ UNCHANGED <<tables, poisoned>>
    BY DEF Begin, Return
  <1>2. PICK c \in Sets \cup Executes, now \in SUBSET Entries :
           /\ call' = [call EXCEPT ![t] = c]
           /\ could' = [could EXCEPT ![t] = now]
           /\ c \in Executes /\ c.method \in Methods => Entry(c) \in now
           /\ \/ c \in Sets /\ BeginsSet(t, c)
              \/ c \in Executes /\ UNCHANGED history
    <2>1. CASE BeginSet(t)
      <3>1. PICK c \in Sets :
                  /\ call' = [call EXCEPT ![t] = c]
                  /\ could' = [could EXCEPT ![t] = {}]
                  /\ BeginsSet(t, c)
        BY <2>1 DEF BeginSet
      <3>2. c \notin Executes
        BY Calls
      <3>3. {} \in SUBSET Entries
        OBVIOUS
      <3> QED BY <3>1, <3>2, <3>3
    <2>2. CASE BeginExecute(t)
      <3>1. PICK c \in Executes :
                  /\ call' = [call EXCEPT ![t] = c]
                  /\ could' = [could EXCEPT ![t] =
                                   IF c.method \in Methods THEN {Entry(c)} ELSE {}]
                  /\ UNCHANGED history
        BY <2>2 DEF BeginExecute
      <3>2. CASE c.method \in Methods
        <4>1. could' = [could EXCEPT ![t] = {Entry(c)}]
          BY <3>1, <3>2
        <4>2. {Entry(c)} \in SUBSET Entries /\ Entry(c) \in {Entry(c)}
          BY <3>2, Calls DEF TypeOK, Entry
        <4> QED BY <3>1, <4>1, <4>2
      <3>3. CASE c.method \notin Methods
        <4>1. could' = [could EXCEPT ![t] = {}]
          BY <3>1, <3>3
        <4> QED BY <3>1, <3>3, <4>1
      <3> QED BY <3>2, <3>3
    <2> QED BY <2>1, <2>2 DEF Begin
  <1>3. TypeOK'
    <2>1. standing' \in [Methods -> [Urls -> SUBSET Entries]]
          /\ rival' \in [Threads -> SUBSET Entries]
      <3>1. CASE UNCHANGED history
        BY <3>1 DEF history, TypeOK
      <3>2. CASE c \in Sets /\ BeginsSet(t, c)
        <4>1. c.method \in Methods /\ c.url \in Urls /\ c.body \in Entries
          BY <3>2, Calls DEF Entries
        <4>2. \A s \in Threads : On(s, "set", c) => call[s].body \in Entries
          BY CallOf, Calls DEF On, Running, Entries
        <4>3. standing' \in [Methods -> [Urls -> SUBSET Entries]]
          BY <3>2, <4>1 DEF BeginsSet, TypeOK
        <4>4. rival' \in [Threads -> SUBSET Entries]
          BY <3>2, <4>1, <4>2 DEF BeginsSet, TypeOK
        <4> QED BY <4>3, <4>4
      <3> QED BY <1>2, <3>1, <3>2
    <2> QED BY <1>1, <1>2, <2>1 DEF TypeOK
  <1>4. /\ call'[t] = c /\ could'[t] = now /\ answer'[t] = "running"
        /\ \A s \in Threads \ {t} : call'[s] = call[s] /\ could'[s] = could[s]
                                    /\ answer'[s] = answer[s]
    BY <1>1, <1>2 DEF TypeOK
  <1>5. Witnessed'
    BY <1>1, <1>2, <1>4, Calls DEF Running, Entry
  <1>6. ExecuteIsCurrent'
    BY <1>1, <1>4, BodiesAssumption
  <1> QED BY <1>3, <1>5, <1>6

\* Whatever is inserted is seen by every execute on the entry.
LEMMA InsertStep ==
    ASSUME ExecutesInv, NEW t \in Threads, Set(t)
    PROVE  ExecutesInv'
  <1> USE DEF ExecutesInv, Witnessed, ExecuteIsCurrent
  <1> DEFINE c == call[t]
  <1>0. /\ c \in Sets /\ c.method \in Methods /\ c.url \in Urls /\ c.body \in Bodies
        /\ c # Idle /\ answer[t] = "running" /\ c.op = "set"
    BY CallOf, Calls DEF Set, Running
  <1>1. /\ call' = call
        /\ tables' = [tables EXCEPT ![c.method][c.url] = c.body]
        /\ could' = [s \in Threads |->
                        IF On(s, "execute", c) THEN could[s] \cup {c.body} ELSE could[s]]
    BY DEF Set, Insert
  <1>2. PICK a \in {"Ok", "panicked"} : answer' = [answer EXCEPT ![t] = a]
    BY DEF Set, Return
  <1>3. poisoned' \in {poisoned, [poisoned EXCEPT ![c.method] = TRUE]}
    BY DEF Set
  <1>4. TypeOK'
    <2>1. /\ standing' = [standing EXCEPT ![c.method][c.url] = @ \cap rival[t]]
          /\ rival' = [rival EXCEPT ![t] = {}]
      BY DEF Set, EndsSet
    <2>2. standing' \in [Methods -> [Urls -> SUBSET Entries]]
          /\ rival' \in [Threads -> SUBSET Entries]
      BY <1>0, <2>1 DEF TypeOK
    <2> QED BY <1>0, <1>1, <1>2, <1>3, <2>2 DEF TypeOK, Entries
  <1>5. /\ \A s \in Threads : could[s] \subseteq could'[s]
        /\ \A s \in Threads : On(s, "execute", c) => c.body \in could'[s]
        /\ \A m \in Methods : poisoned[m] => poisoned'[m]
        /\ answer'[t] = a /\ \A s \in Threads \ {t} : answer'[s] = answer[s]
    BY <1>0, <1>1, <1>2, <1>3 DEF TypeOK
  <1>6. Witnessed'
    <2> SUFFICES ASSUME NEW s \in Threads, Running(s, "execute")',
                        call'[s].method \in Methods
                 PROVE  Entry(call[s])' \in could'[s]
      BY <1>1
    <2>1. s # t /\ Running(s, "execute") /\ call[s] \in Executes /\ call[s] # Idle
          /\ call[s].url \in Urls /\ call[s].method \in Methods
      BY <1>0, <1>1, <1>2, <1>5, CallOf, Calls DEF Running
    <2>2. CASE SameEntry(call[s], c)
      <3>1. Entry(call[s])' = c.body
        BY <1>0, <1>1, <2>1, <2>2 DEF SameEntry, Entry, TypeOK
      <3> QED BY <1>5, <2>1, <2>2, <3>1 DEF On
    <2>3. CASE ~SameEntry(call[s], c)
      <3>1. Entry(call[s])' = Entry(call[s])
        BY <1>0, <1>1, <2>1, <2>3 DEF SameEntry, Entry, TypeOK
      <3> QED BY <1>5, <2>1, <3>1
    <2> QED BY <2>2, <2>3
  <1>7. ExecuteIsCurrent'
    BY <1>0, <1>1, <1>5, Calls
  <1> QED BY <1>4, <1>6, <1>7

LEMMA ExecuteStep ==
    ASSUME ExecutesInv, NEW t \in Threads, Execute(t)
    PROVE  ExecutesInv'
  <1> USE DEF ExecutesInv, Witnessed, ExecuteIsCurrent
  <1> DEFINE c == call[t]
  <1>0. /\ c \in Executes /\ c.method \in Methods \cup {"other"} /\ c.url \in Urls
        /\ c.op = "execute" /\ Running(t, "execute")
    BY CallOf, Calls DEF Execute, Running
  <1>1. UNCHANGED <<tables, poisoned, call, could, history>>
    BY DEF Execute
  <1>2. PICK a \in Bodies \cup {"ProtocolViolation", "Io"} :
           /\ answer' = [answer EXCEPT ![t] = a]
           /\ a \in Bodies => c.method \in Methods /\ a = Entry(c)
           /\ a = "ProtocolViolation" /\ c.method \in Methods => Entry(c) = "absent"
           /\ a = "Io" => c.method \in Methods /\ poisoned[c.method]
    <2>1. c.method \in Methods => Entry(c) \in Entries
      BY <1>0 DEF TypeOK, Entry
    <2>2. CASE c.method \notin Methods
      BY <2>2, BodiesAssumption DEF Execute, Return
    <2>3. CASE c.method \in Methods /\ poisoned[c.method]
      BY <2>3, BodiesAssumption DEF Execute, Return
    <2>4. CASE c.method \in Methods /\ ~poisoned[c.method] /\ Entry(c) = "absent"
      BY <2>4, BodiesAssumption DEF Execute, Return
    <2>5. CASE c.method \in Methods /\ ~poisoned[c.method] /\ Entry(c) # "absent"
      BY <2>1, <2>5, BodiesAssumption DEF Execute, Return, Entries
    <2> QED BY <2>2, <2>3, <2>4, <2>5
  <1>3. TypeOK'
    BY <1>1, <1>2 DEF TypeOK, history
  <1>4. answer'[t] = a /\ \A s \in Threads \ {t} : answer'[s] = answer[s]
    BY <1>2 DEF TypeOK
  <1>5. c.method \in Methods => Entry(c) \in could[t]
    BY <1>0
  <1>6. a \notin {"running", "none", "Ok", "panicked"}
    BY BodiesAssumption
  <1>7. Witnessed'
    BY <1>1, <1>4, <1>6 DEF Running, Entry
  <1>8. ExecuteIsCurrent'
    BY <1>1, <1>2, <1>4, <1>5
  <1> QED BY <1>3, <1>7, <1>8

-----------------------------------------------------------------------------
(* Sets.                                                                   *)

\* A set that begins may stand, and so may it with every set beside it.
LEMMA BeginSetStep ==
    ASSUME TypeOK, SetsInv, NEW t \in Threads, answer[t] # "running",
           answer' = [answer EXCEPT ![t] = "running"], UNCHANGED tables,
           NEW c \in Sets, call' = [call EXCEPT ![t] = c], BeginsSet(t, c)
    PROVE  SetsInv'
  <1> USE DEF SetsInv, MayStand, SetTakesEffect
  <1>1. c.method \in Methods /\ c.url \in Urls /\ c # Idle /\ c.op = "set"
    BY Calls
  <1>2. /\ call'[t] = c /\ answer'[t] = "running"
        /\ \A s \in Threads \ {t} : call'[s] = call[s] /\ answer'[s] = answer[s]
    BY DEF TypeOK
  <1>3. /\ \A m \in Methods, u \in Urls : standing[m][u] \subseteq standing'[m][u]
        /\ c.body \in standing'[c.method][c.url]
    BY <1>1 DEF BeginsSet, TypeOK
  <1>4. /\ \A s \in Threads \ {t} : rival[s] \subseteq rival'[s]
        /\ \A s \in Threads \ {t} : On(s, "set", c) => c.body \in rival'[s]
        /\ c.body \in rival'[t]
        /\ \A s \in Threads : On(s, "set", c) => call[s].body \in rival'[t]
    BY DEF BeginsSet
  <1>5. \A s \in Threads \ {t} : Running(s, "set")' <=> Running(s, "set")
    BY <1>2 DEF Running
  <1>6. MayStand'
    <2> SUFFICES ASSUME NEW r \in Threads, Running(r, "set")'
                 PROVE  /\ (call[r].body \in standing[call[r].method][call[r].url])'
                        /\ \A s \in Threads : On(s, "set", call[r])' => call'[r].body \in rival'[s]
      OBVIOUS
    <2>1. CASE r = t
      <3>1. \A s \in Threads \ {t} : On(s, "set", call[t])' => On(s, "set", c)
        BY <1>2, <1>5 DEF On
      <3> QED BY <1>2, <1>3, <1>4, <2>1, <3>1
    <2>2. CASE r # t
      <3>1. Running(r, "set") /\ call'[r] = call[r]
        BY <1>2, <1>5, <2>2
      <3>2. call[r].method \in Methods /\ call[r].url \in Urls
        BY <3>1, CallOf, Calls DEF Running
      <3>3. \A s \in Threads \ {t} : On(s, "set", call[r])' => On(s, "set", call[r])
        BY <1>2, <1>5, <3>1 DEF On
      <3>4. On(t, "set", call[r])' => On(r, "set", c)
        BY <1>2, <3>1 DEF On, SameEntry
      <3> QED BY <1>3, <1>4, <3>1, <3>2, <3>3, <3>4
    <2> QED BY <2>1, <2>2
  <1>7. SetTakesEffect'
    BY <1>3
  <1> QED BY <1>6, <1>7

\* A set that ends leaves its response, which may stand after it as may those of
\* the sets that still run beside it.
LEMMA EndSetStep ==
    ASSUME TypeOK, SetsInv, NEW t \in Threads, Set(t)
    PROVE  SetsInv'
  <1> USE DEF SetsInv, MayStand, SetTakesEffect
  <1> DEFINE c == call[t]
  <1>0. /\ c.method \in Methods /\ c.url \in Urls /\ c # Idle
        /\ Running(t, "set") /\ On(t, "set", c)
    BY CallOf, Calls DEF Set, Running, On, SameEntry
  <1>1. /\ call' = call
        /\ tables' = [tables EXCEPT ![c.method][c.url] = c.body]
        /\ standing' = [standing EXCEPT ![c.method][c.url] = @ \cap rival[t]]
        /\ rival' = [rival EXCEPT ![t] = {}]
    BY DEF Set, Insert, EndsSet
  <1>2. answer'[t] # "running" /\ \A s \in Threads \ {t} : answer'[s] = answer[s]
    BY DEF Set, Return, TypeOK
  <1>3. /\ standing'[c.method][c.url] = standing[c.method][c.url] \cap rival[t]
        /\ tables'[c.method][c.url] = c.body
        /\ \A m \in Methods, u \in Urls :
              m # c.method \/ u # c.url =>
                  standing'[m][u] = standing[m][u] /\ tables'[m][u] = tables[m][u]
        /\ \A s \in Threads \ {t} : rival'[s] = rival[s]
    BY <1>0, <1>1 DEF TypeOK
  <1>4. \A s \in Threads : Running(s, "set")' => s # t /\ Running(s, "set")
    BY <1>1, <1>2 DEF Running
  <1>5. SetTakesEffect'
    <2>1. c.body \in standing[c.method][c.url] /\ c.body \in rival[t]
      BY <1>0
    <2> QED BY <1>3, <2>1
  <1>6. MayStand'
    <2> SUFFICES ASSUME NEW r \in Threads, Running(r, "set")'
                 PROVE  /\ (call[r].body \in standing[call[r].method][call[r].url])'
                        /\ \A s \in Threads : On(s, "set", call[r])' => call'[r].body \in rival'[s]
      OBVIOUS
    <2>1. r # t /\ Running(r, "set") /\ call[r].method \in Methods /\ call[r].url \in Urls
          /\ call'[r] = call[r]
      BY <1>1, <1>4, CallOf, Calls DEF Running
    <2>2. (call[r].body \in standing[call[r].method][call[r].url])'
      <3>1. CASE SameEntry(c, call[r])
        <4>1. call[r].body \in rival[t]
          BY <1>0, <2>1, <3>1 DEF On
        <4> QED BY <1>3, <2>1, <3>1, <4>1 DEF SameEntry
      <3>2. CASE ~SameEntry(c, call[r])
        <4>1. call[r] # Idle
          BY <2>1, CallOf, Calls DEF Running
        <4> QED BY <1>0, <1>3, <2>1, <3>2, <4>1 DEF SameEntry
      <3> QED BY <3>1, <3>2
    <2>3. \A s \in Threads : On(s, "set", call[r])' => s # t /\ On(s, "set", call[r])
      BY <1>1, <1>4, <2>1 DEF On
    <2> QED BY <1>3, <2>1, <2>2, <2>3
  <1> QED BY <1>5, <1>6

LEMMA SetsStep ==
    ASSUME TypeOK, SetsInv, [Next]_vars
    PROVE  SetsInv'
  <1>1. ASSUME UNCHANGED <<tables, history>>,
               \A s \in Threads : Running(s, "set")' => Running(s, "set") /\ call'[s] = call[s]
        PROVE  SetsInv'
    <2>1. SetTakesEffect'
      BY <1>1 DEF SetsInv, SetTakesEffect, history
    <2>2. \A s, t \in Threads :
             Running(t, "set")' /\ On(s, "set", call[t])' => On(s, "set", call[t])
      BY <1>1 DEF On
    <2>3. MayStand'
      BY <1>1, <2>2 DEF SetsInv, MayStand, history
    <2> QED BY <2>1, <2>3 DEF SetsInv
  <1>2. CASE UNCHANGED vars
    BY <1>1, <1>2 DEF vars, Running
  <1>3. ASSUME NEW t \in Threads, Begin(t) PROVE SetsInv'
    <2>1. CASE BeginSet(t)
      BY <1>3, <2>1, BeginSetStep DEF Begin, BeginSet, Return
    <2>2. CASE BeginExecute(t)
      <3>1. PICK c \in Executes : call' = [call EXCEPT ![t] = c]
        BY <2>2 DEF BeginExecute
      <3>2. \A s \in Threads : Running(s, "set")' => Running(s, "set") /\ call'[s] = call[s]
        BY <1>3, <3>1, Calls DEF Begin, Return, Running, TypeOK
      <3> QED BY <1>1, <1>3, <2>2, <3>2 DEF Begin, BeginExecute
    <2> QED BY <1>3, <2>1, <2>2 DEF Begin
  <1>4. ASSUME NEW t \in Threads, Execute(t) PROVE SetsInv'
    <2>1. \A s \in Threads : Running(s, "set")' => Running(s, "set") /\ call'[s] = call[s]
      BY <1>4 DEF Execute, Return, Running, TypeOK
    <2> QED BY <1>1, <1>4, <2>1 DEF Execute
  <1> QED BY <1>2, <1>3, <1>4, EndSetStep DEF Next

-----------------------------------------------------------------------------
LEMMA ExecutesAlways == Spec => []ExecutesInv
  <1>1. Init => ExecutesInv
    <2>1. Init => TypeOK
      BY Calls DEF Init, TypeOK, Entries
    <2> QED BY <2>1, Calls DEF Init, ExecutesInv, Witnessed, Running, ExecuteIsCurrent
  <1>2. ExecutesInv /\ [Next]_vars => ExecutesInv'
    <2>1. ASSUME ExecutesInv, UNCHANGED vars PROVE ExecutesInv'
      BY <2>1 DEF vars, history, ExecutesInv, TypeOK, Witnessed, ExecuteIsCurrent,
                  Running, Entry
    <2> QED BY <2>1, BeginStep, InsertStep, ExecuteStep DEF Next
  <1> QED BY <1>1, <1>2, PTL DEF Spec

LEMMA SetsAlways == Spec => []SetsInv
  <1>1. Init => SetsInv
    BY DEF Init, SetsInv, MayStand, SetTakesEffect, Running
  <1>2. TypeOK /\ SetsInv /\ [Next]_vars => SetsInv'
    BY SetsStep
  <1>3. ExecutesInv => TypeOK
    BY DEF ExecutesInv
  <1> QED BY <1>1, <1>2, <1>3, ExecutesAlways, PTL DEF Spec

\* execute answers what its table held at some moment of the call.
THEOREM ExecuteAlwaysCurrent == Spec => []ExecuteIsCurrent
  BY ExecutesAlways, PTL DEF ExecutesInv

\* However sets overlap, panic and find the lock poisoned, every entry holds the
\* response of the last one or of one that ran beside it.
THEOREM SetAlwaysTakesEffect == Spec => []SetTakesEffect
  BY SetsAlways, PTL DEF SetsInv
=============================================================================
