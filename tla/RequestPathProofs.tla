-------------------------- MODULE RequestPathProofs --------------------------
(***************************************************************************)
(* Proofs about RequestPath, for any requests, operations, exception       *)
(* graphs and limits.  First the search of an exception graph, which knows *)
(* no requests; then the invariant, for which a step of one request        *)
(* touches what it says of that request only (LocalStep).                  *)
(***************************************************************************)
EXTENDS RequestPathProperties, TLAPS

-----------------------------------------------------------------------------
(* The search *)

LEMMA ElementsConcat ==
  ASSUME NEW p \in Seq(Errors), NEW q \in Seq(Errors)
  PROVE  p \o q \in Seq(Errors) /\ Elements(p \o q) = Elements(p) \cup Elements(q)
<1>1. p \o q \in Seq(Errors) /\ Len(p \o q) = Len(p) + Len(q)
  OBVIOUS
<1>2. \A i \in 1 .. Len(p) : (p \o q)[i] = p[i]
  OBVIOUS
<1>3. \A i \in 1 .. Len(q) : (p \o q)[Len(p) + i] = q[i]
  OBVIOUS
<1>4. Elements(p \o q) \subseteq Elements(p) \cup Elements(q)
  <2> SUFFICES ASSUME NEW i \in 1 .. Len(p \o q)
               PROVE  (p \o q)[i] \in Elements(p) \cup Elements(q)
    BY DEF Elements
  <2>1. CASE i <= Len(p)
    BY <2>1, <1>2 DEF Elements
  <2>2. CASE i > Len(p)
    <3>1. i - Len(p) \in 1 .. Len(q) /\ i = Len(p) + (i - Len(p))
      BY <2>2, <1>1
    <3>2. (p \o q)[i] = q[i - Len(p)]
      BY <3>1, <1>3
    <3> QED BY <3>1, <3>2 DEF Elements
  <2> QED BY <2>1, <2>2, <1>1
<1>5. Elements(p) \subseteq Elements(p \o q)
  BY <1>1, <1>2 DEF Elements
<1>6. Elements(q) \subseteq Elements(p \o q)
  <2> SUFFICES ASSUME NEW i \in 1 .. Len(q) PROVE q[i] \in Elements(p \o q)
    BY DEF Elements
  <2>1. Len(p) + i \in 1 .. Len(p \o q)
    BY <1>1
  <2> QED BY <2>1, <1>3 DEF Elements
<1> QED BY <1>1, <1>4, <1>5, <1>6

\* What popping leaves and takes.
LEMMA PoppedFacts ==
  ASSUME NEW s \in Searches, s.pending # <<>>
  PROVE  /\ Top(s) \in Errors /\ Popped(s) \in Seq(Errors)
         /\ Elements(s.pending) = Elements(Popped(s)) \cup {Top(s)}
<1> DEFINE p == s.pending
<1>1. p \in Seq(Errors) /\ Len(p) \in Nat \ {0}
  BY DEF Searches
<1>2. Top(s) \in Errors
  BY <1>1 DEF Top
<1>3. /\ Popped(s) \in Seq(Errors) /\ Len(Popped(s)) = Len(p) - 1
      /\ \A i \in 1 .. Len(p) - 1 : Popped(s)[i] = p[i]
  BY <1>1 DEF Popped
<1>4. 1 .. Len(p) = (1 .. Len(p) - 1) \cup {Len(p)}
  BY <1>1
<1> QED BY <1>2, <1>3, <1>4 DEF Elements, Top

\* Whatever a reachable exception links to is reachable.
LEMMA ReachableClosed ==
  ASSUME NEW g \in Graphs
  PROVE  /\ Raised \in Reachable(g)
         /\ \A e \in Reachable(g) : Elements(g[e].links) \subseteq Reachable(g)
<1>1. Raised \in Reachable(g)
  BY RaisedAssumption DEF Reachable, Closed
<1>2. ASSUME NEW e \in Reachable(g), NEW f \in Elements(g[e].links)
      PROVE  f \in Reachable(g)
  <2>1. e \in Errors /\ f \in Errors
    BY <1>2 DEF Reachable, Graphs, Elements
  <2>2. ASSUME NEW S \in SUBSET Errors, Closed(g, S) PROVE f \in S
    BY <1>2, <2>2 DEF Reachable, Closed
  <2> QED BY <2>1, <2>2 DEF Reachable
<1> QED BY <1>1, <1>2

LEMMA BeginOK ==
  ASSUME NEW g \in Graphs
  PROVE  Begin(g) \in Searches /\ SearchOK(Begin(g))
<1>1. <<Raised>> \in Seq(Errors) /\ Elements(<<Raised>>) = {Raised}
  BY RaisedAssumption DEF Elements
<1>2. Raised \in Reachable(g)
  BY ReachableClosed
<1> QED BY <1>1, <1>2 DEF Begin, Searches, SearchOK

\* A round of the search keeps what it knows.
LEMMA VisitOK ==
  ASSUME NEW s \in Searches, SearchOK(s), ~Over(s)
  PROVE  Visit(s) \in Searches /\ SearchOK(Visit(s))
<1> DEFINE t == Visit(s)
           e == s.graph[Top(s)]
<1>1. /\ s.graph \in Graphs /\ s.pending \in Seq(Errors) /\ s.visited \subseteq Errors
      /\ s.found = None /\ s.pending # <<>>
  BY DEF Searches, Over
<1>2. /\ Top(s) \in Errors /\ Popped(s) \in Seq(Errors)
      /\ Elements(s.pending) = Elements(Popped(s)) \cup {Top(s)}
  BY <1>1, PoppedFacts
<1>3. e.name \in Names \cup {None} /\ e.links \in Seq(Errors)
  BY <1>1, <1>2 DEF Graphs
<1>4. CASE Top(s) \in s.visited
  <2>1. t = [s EXCEPT !.pending = Popped(s)]
    BY <1>4 DEF Visit
  <2>2. /\ t.graph = s.graph /\ t.pending = Popped(s) /\ t.visited = s.visited
        /\ t.found = s.found /\ t \in Searches
    BY <2>1, <1>2 DEF Searches
  <2>3. Elements(t.pending) \cup t.visited = Elements(s.pending) \cup s.visited
    BY <2>2, <1>2, <1>4
  <2> HIDE DEF t
  <2>9. t \in Searches /\ SearchOK(t)
    BY <2>2, <2>3 DEF SearchOK
  <2> QED BY <2>9 DEF t
<1>5. CASE Top(s) \notin s.visited /\ e.name # None
  <2>1. t = [graph |-> s.graph, pending |-> Popped(s) \o <<>>,
             visited |-> s.visited \cup {Top(s)}, found |-> e.name]
    BY <1>5 DEF Visit
  <2>2. Popped(s) \o <<>> = Popped(s)
    BY <1>2
  <2>3. /\ t.graph = s.graph /\ t.pending = Popped(s)
        /\ t.visited = s.visited \cup {Top(s)}
        /\ t.found = e.name /\ t \in Searches
    BY <2>1, <2>2, <1>1, <1>2, <1>3 DEF Searches
  <2>4. Elements(t.pending) \cup t.visited = Elements(s.pending) \cup s.visited
    BY <2>3, <1>2
  <2>5. Top(s) \in Reachable(s.graph)
    BY <1>2 DEF SearchOK
  <2>6. t.found \in NamesIn(t.graph)
    BY <2>3, <2>5, <1>5 DEF NamesIn
  <2> HIDE DEF t
  <2>9. t \in Searches /\ SearchOK(t)
    BY <2>3, <2>4, <2>6, <1>5 DEF SearchOK
  <2> QED BY <2>9 DEF t
<1>6. CASE Top(s) \notin s.visited /\ e.name = None
  <2>1. t = [graph |-> s.graph, pending |-> Popped(s) \o e.links,
             visited |-> s.visited \cup {Top(s)}, found |-> e.name]
    BY <1>6 DEF Visit
  <2>2. /\ Popped(s) \o e.links \in Seq(Errors)
        /\ Elements(Popped(s) \o e.links) = Elements(Popped(s)) \cup Elements(e.links)
    BY <1>2, <1>3, ElementsConcat
  <2>3. /\ t.graph = s.graph /\ t.pending = Popped(s) \o e.links
        /\ t.visited = s.visited \cup {Top(s)}
        /\ t.found = None /\ t \in Searches
    BY <2>1, <2>2, <1>1, <1>2, <1>3, <1>6 DEF Searches
  <2>4. Elements(t.pending) \cup t.visited
          = Elements(s.pending) \cup s.visited \cup Elements(e.links)
    BY <2>2, <2>3, <1>2
  <2>5. Elements(e.links) \subseteq Reachable(s.graph)
    BY <1>1, <1>2, ReachableClosed DEF SearchOK
  <2>6. \A f \in t.visited : /\ t.graph[f].name = None
                             /\ Elements(t.graph[f].links)
                                  \subseteq Elements(t.pending) \cup t.visited
    BY <2>3, <2>4, <1>1, <1>6 DEF SearchOK
  <2> HIDE DEF t
  <2>9. t \in Searches /\ SearchOK(t)
    BY <2>3, <2>4, <2>5, <2>6 DEF SearchOK
  <2> QED BY <2>9 DEF t
<1> QED BY <1>4, <1>5, <1>6

\* A search that is over has found a name that is there, or there is none.
LEMMA SearchResult ==
  ASSUME NEW s \in Searches, SearchOK(s), Over(s)
  PROVE  IF s.found = SkuConstraint THEN SkuConstraint \in NamesIn(s.graph)
                                    ELSE NamesIn(s.graph) # {SkuConstraint}
<1>0. SkuConstraint # None
  BY RequestPathAssumption, NamesAssumption
<1>1. CASE s.found # None
  BY <1>1 DEF SearchOK
<1>2. CASE s.found = None
  <2>1. s.pending = <<>> /\ Elements(s.pending) = {}
    BY <1>2 DEF Over, Elements
  <2>2. Closed(s.graph, s.visited) /\ s.visited \subseteq Errors
    BY <1>2, <2>1 DEF SearchOK, Closed, Searches
  <2>3. Reachable(s.graph) \subseteq s.visited
    BY <2>2 DEF Reachable
  <2>4. NamesIn(s.graph) = {}
    BY <2>3, <1>2 DEF SearchOK, NamesIn
  <2> QED BY <2>4, <1>0, <1>2
<1> QED BY <1>1, <1>2

-----------------------------------------------------------------------------
(* Scripts and exceptions *)

Waits == {"read", "end", "hash", "lock", "commit"}

\* A handler hashes only after a hash or after the end of a transaction, and
\* writers, and no others, commit, as their last wait.
GoodScript(o, q) ==
  /\ q \in Seq(Waits) /\ Len(q) \in 0 .. 7
  /\ o \in Writers => Len(q) > 0
  /\ \A i \in 1 .. Len(q) :
       /\ q[i] = "commit" <=> o \in Writers /\ i = Len(q)
       /\ q[i] = "hash" => i > 1 /\ q[i - 1] \in {"end", "hash"}

LEMMA ScriptFacts ==
  /\ DOMAIN Script = {"UNKNOWN", "LIVE", "READ", "UPDATE", "REFRESH", "CREATE", "REGISTER",
                      "LOGIN", "PASSWORD"}
  /\ \A o \in DOMAIN Script : GoodScript(o, Script[o])
<1>1. DOMAIN Script = {"UNKNOWN", "LIVE", "READ", "UPDATE", "REFRESH", "CREATE", "REGISTER",
                       "LOGIN", "PASSWORD"}
  BY DEF Script
<1>2. /\ GoodScript("UNKNOWN", Script["UNKNOWN"]) /\ GoodScript("LIVE", Script["LIVE"])
      /\ GoodScript("READ", Script["READ"])
  BY DEF Script, GoodScript, Waits, Writers
<1>3. GoodScript("UPDATE", Script["UPDATE"]) /\ GoodScript("REFRESH", Script["REFRESH"])
  BY DEF Script, GoodScript, Waits, Writers
<1>4. GoodScript("CREATE", Script["CREATE"])
  BY DEF Script, GoodScript, Waits, Writers, CreateWaits
<1>5. GoodScript("REGISTER", Script["REGISTER"])
  BY DEF Script, GoodScript, Waits, Writers
<1>6. GoodScript("LOGIN", Script["LOGIN"])
  BY DEF Script, GoodScript, Waits, Writers
<1>7. GoodScript("PASSWORD", Script["PASSWORD"])
  BY DEF Script, GoodScript, Waits, Writers, PasswordWaits
<1> QED BY <1>1, <1>2, <1>3, <1>4, <1>5, <1>6, <1>7

LEMMA ExceptionFacts ==
  /\ Exceptions = {"APP", "VALIDATION", "HTTP", "INTEGRITY", "UNEXPECTED"}
  /\ \A e \in Exceptions : Handler[e] \in Answers /\ Handler[e] # "OK"
  /\ Handler["UNEXPECTED"] = "INTERNAL_SERVER_ERROR" /\ Handler["APP"] = "APP_ERROR"
  /\ \A e \in Exceptions \ {"UNEXPECTED"} : Handler[e] # "INTERNAL_SERVER_ERROR"
  /\ DOMAIN Raises = Waits
  /\ \A w \in Waits : Raises[w] \subseteq Exceptions
  /\ "OK" \in Answers
<1>1. Exceptions = {"APP", "VALIDATION", "HTTP", "INTEGRITY", "UNEXPECTED"}
  BY DEF Exceptions, Handler
<1>2. /\ \A e \in Exceptions : Handler[e] # "OK"
      /\ Handler["UNEXPECTED"] = "INTERNAL_SERVER_ERROR" /\ Handler["APP"] = "APP_ERROR"
      /\ \A e \in Exceptions \ {"UNEXPECTED"} : Handler[e] # "INTERNAL_SERVER_ERROR"
  BY <1>1 DEF Handler
<1>3. /\ DOMAIN Raises = Waits
      /\ \A w \in Waits : Raises[w] \subseteq Exceptions
  BY <1>1 DEF Raises, Waits
<1> QED BY <1>1, <1>2, <1>3 DEF Answers

\* A request at a wait runs, and is at that place of its script.
LEMMA StepFacts ==
  ASSUME NEW r \in Req, Step(r) # None \/ Step(r) \in Waits, TypeOK, Placed(r)
  PROVE  /\ place[r] = "run" /\ op[r] \in DOMAIN Script /\ Step(r) \in Waits
         /\ at[r] \in 1 .. Len(Script[op[r]]) /\ Step(r) = Script[op[r]][at[r]]
         /\ Len(Script[op[r]]) \in 0 .. 7
         /\ Step(r) = "commit" <=> op[r] \in Writers /\ at[r] = Len(Script[op[r]])
<1>1. None \notin Waits
  BY RequestPathAssumption, ExceptionFacts
<1>2. Step(r) # None
  BY <1>1
<1>3. /\ place[r] = "run" /\ at[r] <= Len(Script[op[r]]) /\ Step(r) = Script[op[r]][at[r]]
  BY <1>2 DEF Step
<1>4. op[r] \in DOMAIN Script /\ at[r] \in 1 .. 8
  BY <1>3 DEF Placed, TypeOK
<1>5. GoodScript(op[r], Script[op[r]])
  BY <1>4, ScriptFacts
<1>6. /\ Script[op[r]] \in Seq(Waits) /\ Len(Script[op[r]]) \in 0 .. 7
      /\ \A i \in 1 .. Len(Script[op[r]]) :
            Script[op[r]][i] = "commit" <=> op[r] \in Writers /\ i = Len(Script[op[r]])
  BY <1>5 DEF GoodScript
<1>7. at[r] \in 1 .. Len(Script[op[r]])
  BY <1>3, <1>4, <1>6
<1> QED BY <1>3, <1>4, <1>6, <1>7

-----------------------------------------------------------------------------
(* Steps of one request *)

\* Nobody else is moved, and nobody else gets a lock.
Private(r) ==
  \A s \in Req \ {r} :
    /\ place'[s] = place[s] /\ op'[s] = op[s] /\ at'[s] = at[s] /\ held'[s] = held[s]
    /\ error'[s] = error[s] /\ search'[s] = search[s] /\ sent'[s] = sent[s]
    /\ s \in slots' <=> s \in slots
    /\ s \in committed' <=> s \in committed
    /\ lock' = s => lock = s

LEMMA LocalStep ==
  ASSUME IInv, NEW r \in Req, Private(r), TypeOK', ReqOK(r)'
  PROVE  IInv'
<1>1. ASSUME NEW s \in Req, s # r PROVE ReqOK(s)'
  <2>1. /\ ReqOK(s)
        /\ place'[s] = place[s] /\ op'[s] = op[s] /\ at'[s] = at[s] /\ held'[s] = held[s]
        /\ error'[s] = error[s] /\ search'[s] = search[s] /\ sent'[s] = sent[s]
        /\ s \in slots' <=> s \in slots
        /\ s \in committed' <=> s \in committed
        /\ lock' = s => lock = s
    BY <1>1 DEF IInv, Private
  <2>2. Step(s)' = Step(s)
    BY <2>1 DEF Step
  <2>3. Searching(s)'
    BY <2>1 DEF ReqOK, Searching, Named
  <2>4. Placed(s)'
    BY <2>1 DEF ReqOK, Placed
  <2>5. Holds(s)'
    BY <2>1, <2>2 DEF ReqOK, Holds, HoldsNothing
  <2>6. Outcome(s)'
    BY <2>1 DEF ReqOK, Outcome, AfterCommit
  <2> QED BY <2>3, <2>4, <2>5, <2>6 DEF ReqOK
<1> QED BY <1>1 DEF IInv

LEMMA OneAnswer ==
  ASSUME NEW a PROVE <<a>> # <<>> /\ \A b : <<a>> = <<b>> => a = b
<1>1. Len(<<a>>) = 1 /\ Len(<<>>) = 0
  OBVIOUS
<1>2. \A b : <<a>>[1] = a /\ <<b>>[1] = b
  OBVIOUS
<1>3. <<a>> # <<>>
  BY <1>1, Zenon
<1> QED BY <1>2, <1>3, Zenon

LEMMA NoneIsNoWait == None \notin Waits /\ None \notin Req
BY RequestPathAssumption, ExceptionFacts

\* A request that is done with a wait.
LEMMA StepDoneOK ==
  ASSUME TypeOK, NEW r \in Req, ReqOK(r), Step(r) \in Waits,
         StepDone(r), UNCHANGED <<place, op, search, sent>>,
         IF Step(r) = "commit" THEN r \in committed' ELSE committed' = committed,
         r \notin slots', lock' = r => held'[r] = "OPEN",
         Step(r) \in {"end", "hash"} => held'[r] = "NONE"
  PROVE  ReqOK(r)' /\ at' \in [Req -> 1 .. 8]
<1>1. /\ place[r] = "run" /\ op[r] \in DOMAIN Script
      /\ at[r] \in 1 .. Len(Script[op[r]]) /\ Step(r) = Script[op[r]][at[r]]
      /\ Len(Script[op[r]]) \in 0 .. 7
      /\ Step(r) = "commit" <=> op[r] \in Writers /\ at[r] = Len(Script[op[r]])
  BY StepFacts DEF ReqOK
<1>2. at' = [at EXCEPT ![r] = at[r] + 1] /\ at'[r] = at[r] + 1
  BY DEF StepDone, TypeOK
<1>3. at' \in [Req -> 1 .. 8]
  <2>1. at \in [Req -> 1 .. 8]
    BY DEF TypeOK
  <2>2. at[r] + 1 \in 1 .. 8
    BY <1>1
  <2> QED BY <2>1, <2>2, <1>2
<1>4. Searching(r)'
  BY <1>1 DEF ReqOK, Searching
<1>5. Placed(r)'
  BY <1>1, <1>2 DEF ReqOK, Placed
<1>6. Step(r)' = "hash" => Step(r) \in {"end", "hash"}
  <2> SUFFICES ASSUME Step(r)' = "hash" PROVE Step(r) \in {"end", "hash"}
    OBVIOUS
  <2>1. at[r] + 1 \in 1 .. Len(Script[op[r]]) /\ Script[op[r]][at[r] + 1] = "hash"
    BY <1>1, <1>2, NoneIsNoWait DEF Step, Waits
  <2>2. GoodScript(op[r], Script[op[r]])
    BY <1>1, ScriptFacts
  <2>3. Script[op[r]][(at[r] + 1) - 1] \in {"end", "hash"}
    BY <2>1, <2>2 DEF GoodScript
  <2> QED BY <2>3, <1>1
<1>7. Holds(r)'
  BY <1>1, <1>6 DEF Holds
<1>8. Outcome(r)'
  <2>1. op'[r] = op[r] /\ place'[r] = "run"
    BY <1>1
  <2>3. sent'[r] # <<"OK">>
    BY <1>1, OneAnswer DEF ReqOK, Placed
  <2>2. r \in committed' <=> op[r] \in Writers /\ at[r] + 1 > Len(Script[op[r]])
    BY <1>1 DEF ReqOK, Outcome
  <2> QED BY <1>2, <2>1, <2>2, <2>3 DEF Outcome
<1> QED BY <1>3, <1>4, <1>5, <1>7, <1>8 DEF ReqOK

\* A handler that raises.
LEMMA ThrowOK ==
  ASSUME TypeOK, NEW r \in Req, ReqOK(r), place[r] = "run", NEW e \in Exceptions,
         Throw(r, e), UNCHANGED <<op, search, sent>>,
         r \notin slots', lock' = r => held'[r] = "OPEN",
         r \in committed' => AfterCommit(r, e)
  PROVE  /\ ReqOK(r)'
         /\ place' \in [Req -> Places] /\ at' \in [Req -> 1 .. 8]
         /\ error' \in [Req -> Exceptions \cup {None}]
<1>1. /\ place' = [place EXCEPT ![r] = "fail"] /\ place'[r] = "fail"
      /\ error' = [error EXCEPT ![r] = e] /\ error'[r] = e
      /\ at' = [at EXCEPT ![r] = 1]
  BY DEF Throw, Goto, TypeOK
<1>2. /\ place' \in [Req -> Places] /\ at' \in [Req -> 1 .. 8]
      /\ error' \in [Req -> Exceptions \cup {None}]
  BY <1>1 DEF TypeOK, Places
<1>3. Searching(r)' /\ Placed(r)'
  BY <1>1 DEF ReqOK, Searching, Placed
<1>4. Holds(r)'
  BY <1>1, NoneIsNoWait DEF Holds, Step, Waits
<1>5. Outcome(r)'
  <2>1. place'[r] = "fail" /\ sent'[r] # <<"OK">>
    BY <1>1, OneAnswer DEF ReqOK, Placed
  <2> QED BY <2>1, <1>1 DEF Outcome, AfterCommit
<1> QED BY <1>2, <1>3, <1>4, <1>5 DEF ReqOK

\* Throwing, or being done with a wait, moves nobody else.
LEMMA MovesOneself ==
  ASSUME TypeOK, NEW r \in Req,
         \/ StepDone(r) /\ UNCHANGED <<place, error>>
         \/ \E e \in Exceptions : Throw(r, e)
  PROVE  \A s \in Req \ {r} :
           place'[s] = place[s] /\ at'[s] = at[s] /\ error'[s] = error[s]
BY DEF TypeOK, StepDone, Throw, Goto

\* The end of a transaction frees what the request held of the database.
LEMMA EndTransactionFacts ==
  ASSUME TypeOK, NEW r \in Req, EndTransaction(r)
  PROVE  /\ held' \in [Req -> {"NONE", "OPEN", "DEAD"}] /\ lock' \in Req \cup {None}
         /\ held'[r] = "NONE" /\ lock' # r
         /\ \A s \in Req \ {r} : held'[s] = held[s] /\ (lock' = s => lock = s)
<1>1. held' = [held EXCEPT ![r] = "NONE"] /\ lock' = IF lock = r THEN None ELSE lock
  BY DEF EndTransaction
<1> QED BY <1>1, NoneIsNoWait DEF TypeOK

-----------------------------------------------------------------------------
(* The handler *)

LEMMA ArriveStep ==
  ASSUME IInv, NEW r \in Req, NEW o \in Ops[r], Arrive(r, o)
  PROVE  IInv'
<1>1. o \in DOMAIN Script
  BY RequestPathAssumption
<1>2. TypeOK /\ ReqOK(r) /\ place[r] = "idle"
  BY DEF IInv, Arrive
<1>3. /\ place' = [place EXCEPT ![r] = "run"] /\ place'[r] = "run"
      /\ op' = [op EXCEPT ![r] = o] /\ op'[r] = o
      /\ UNCHANGED <<at, held, slots, lock, committed, error, search, sent, restarts>>
  BY <1>2 DEF Arrive, Goto, TypeOK, resources
<1>4. TypeOK' /\ Private(r)
  BY <1>1, <1>2, <1>3 DEF TypeOK, Places, Private
<1>5. GoodScript(o, Script[o])
  BY <1>1, ScriptFacts
<1>6. at[r] = 1 /\ Len(Script[o]) \in 0 .. 7
  BY <1>2, <1>5 DEF ReqOK, Placed, GoodScript
<1>7. Searching(r)'
  BY <1>2, <1>3 DEF ReqOK, Searching
<1>8. Placed(r)'
  BY <1>1, <1>2, <1>3, <1>6 DEF ReqOK, Placed
<1>9. Holds(r)'
  BY <1>2, <1>3 DEF ReqOK, Holds, HoldsNothing
<1>10. Outcome(r)'
  <2>1. sent'[r] # <<"OK">> /\ r \notin committed'
    BY <1>2, <1>3, OneAnswer DEF ReqOK, Placed
  <2>2. o \in Writers => Len(Script[o]) > 0
    BY <1>5 DEF GoodScript
  <2> QED BY <2>1, <2>2, <1>3, <1>6 DEF Outcome
<1> QED BY <1>4, <1>7, <1>8, <1>9, <1>10, LocalStep DEF ReqOK

\* A request that runs but is not at a commit's far side has not committed.
LEMMA NotCommitted ==
  ASSUME TypeOK, NEW r \in Req, ReqOK(r), Step(r) \in Waits
  PROVE  place[r] = "run" /\ r \notin committed
<1>1. /\ place[r] = "run" /\ at[r] \in 1 .. Len(Script[op[r]])
      /\ Len(Script[op[r]]) \in 0 .. 7
  BY StepFacts DEF ReqOK
<1> QED BY <1>1 DEF ReqOK, Outcome

LEMMA NotFoundStep ==
  ASSUME IInv, NEW r \in Req, NotFound(r)
  PROVE  IInv'
<1>1. /\ TypeOK /\ ReqOK(r) /\ place[r] = "run" /\ op[r] = "UNKNOWN" /\ Throw(r, "HTTP")
      /\ UNCHANGED <<op, held, slots, lock, committed, search, sent, restarts>>
  BY DEF IInv, NotFound, resources
<1>2. "HTTP" \in Exceptions /\ r \notin committed
  BY <1>1, ExceptionFacts DEF ReqOK, Outcome, Writers
<1>3. Step(r) = None
  <2>1. Script["UNKNOWN"] = <<>> /\ Len(<<>>) = 0
    BY DEF Script
  <2>2. at[r] \in 1 .. 8
    BY <1>1 DEF TypeOK
  <2> QED BY <1>1, <2>1, <2>2 DEF Step
<1>4. r \notin slots' /\ (lock' = r => held'[r] = "OPEN")
  BY <1>1, <1>3, NoneIsNoWait DEF ReqOK, Holds, Waits
<1>5. ReqOK(r)' /\ TypeOK'
  BY <1>1, <1>2, <1>4, ThrowOK DEF TypeOK
<1>6. Private(r)
  BY <1>1, <1>2, MovesOneself DEF Private
<1> QED BY <1>5, <1>6, LocalStep

LEMMA RefuseStep ==
  ASSUME IInv, NEW r \in Req, Refuse(r)
  PROVE  IInv'
<1>1. /\ TypeOK /\ ReqOK(r) /\ Step(r) = "read"
      /\ UNCHANGED <<op, held, slots, lock, committed, search, sent, restarts>>
  BY DEF IInv, Refuse, resources
<1>2. PICK e \in Exceptions : Throw(r, e)
  BY ExceptionFacts DEF Refuse
<1>3. place[r] = "run" /\ r \notin committed
  BY <1>1, NotCommitted DEF Waits
<1>4. r \notin slots' /\ (lock' = r => held'[r] = "OPEN")
  BY <1>1 DEF ReqOK, Holds
<1>5. ReqOK(r)' /\ TypeOK'
  BY <1>1, <1>2, <1>3, <1>4, ThrowOK DEF TypeOK
<1>6. Private(r)
  BY <1>1, <1>2, MovesOneself DEF Private
<1> QED BY <1>5, <1>6, LocalStep

LEMMA ConnectStep ==
  ASSUME IInv, NEW r \in Req, Connect(r)
  PROVE  IInv'
<1>1. PICK c \in {"OPEN", "DEAD"} : held' = [held EXCEPT ![r] = c]
  BY DEF Connect
<1>2. /\ TypeOK /\ ReqOK(r) /\ Step(r) \in {"read", "lock"} /\ held[r] = "NONE"
      /\ UNCHANGED <<place, op, at, slots, lock, committed, error, search, sent, restarts>>
  BY DEF IInv, Connect, WantsConnection
<1>3. place[r] = "run" /\ lock # r
  BY <1>2, NotCommitted DEF Waits, ReqOK, Holds
<1>4. TypeOK' /\ Private(r)
  BY <1>1, <1>2 DEF TypeOK, Private
<1>5. Step(r)' = Step(r)
  BY <1>2 DEF Step
<1>6. Holds(r)'
  BY <1>1, <1>2, <1>3, <1>5 DEF ReqOK, Holds
<1>7. Searching(r)' /\ Placed(r)' /\ Outcome(r)'
  BY <1>2 DEF ReqOK, Searching, Named, Placed, Outcome, AfterCommit
<1> QED BY <1>4, <1>6, <1>7, LocalStep DEF ReqOK

LEMMA PoolTimeoutStep ==
  ASSUME IInv, NEW r \in Req, PoolTimeout(r)
  PROVE  IInv'
<1>1. /\ TypeOK /\ ReqOK(r) /\ Step(r) \in {"read", "lock"} /\ Throw(r, "UNEXPECTED")
      /\ UNCHANGED <<op, held, slots, lock, committed, search, sent, restarts>>
  BY DEF IInv, PoolTimeout, WantsConnection, resources
<1>2. "UNEXPECTED" \in Exceptions /\ place[r] = "run"
  BY <1>1, ExceptionFacts, NotCommitted DEF Waits
<1>3. r \notin slots' /\ (lock' = r => held'[r] = "OPEN")
  BY <1>1 DEF ReqOK, Holds
<1>4. ReqOK(r)' /\ TypeOK'
  BY <1>1, <1>2, <1>3, ThrowOK DEF TypeOK, AfterCommit
<1>5. Private(r)
  BY <1>1, <1>2, MovesOneself DEF Private
<1> QED BY <1>4, <1>5, LocalStep

\* Reads, the locks they are followed by, and the ends of transactions.
LEMMA StatementStep ==
  ASSUME IInv, NEW r \in Req, Read(r) \/ EndRead(r) \/ Lock(r) \/ Commit(r)
  PROVE  IInv'
<1>1. /\ TypeOK /\ ReqOK(r) /\ StepDone(r) /\ held[r] = "OPEN"
      /\ Step(r) \in {"read", "end", "lock", "commit"}
      /\ UNCHANGED <<place, op, slots, error, search, sent, restarts>>
  BY DEF IInv, Read, EndRead, Lock, Commit, resources
<1>2. IF Step(r) = "commit" THEN committed' = committed \cup {r}
                            ELSE committed' = committed
  BY DEF Read, EndRead, Lock, Commit
<1>3. r \notin slots'
  BY <1>1 DEF ReqOK, Holds
<1>4. \/ EndTransaction(r)
      \/ Step(r) \in {"read", "lock"} /\ held' = held /\ (lock' = lock \/ lock' = r)
  BY DEF Read, EndRead, Lock, Commit, resources
<1>5. /\ held' \in [Req -> {"NONE", "OPEN", "DEAD"}] /\ lock' \in Req \cup {None}
      /\ lock' = r => held'[r] = "OPEN"
      /\ Step(r) \in {"end", "hash"} => held'[r] = "NONE"
      /\ \A s \in Req \ {r} : held'[s] = held[s] /\ (lock' = s => lock = s)
  BY <1>1, <1>4, EndTransactionFacts DEF TypeOK
<1>6. ReqOK(r)' /\ at' \in [Req -> 1 .. 8]
  BY <1>1, <1>2, <1>3, <1>5, StepDoneOK DEF Waits
<1>7. TypeOK'
  BY <1>1, <1>2, <1>5, <1>6 DEF TypeOK
<1>8. Private(r)
  <2>1. \A s \in Req \ {r} : at'[s] = at[s] /\ (s \in committed' <=> s \in committed)
    BY <1>1, <1>2, MovesOneself
  <2> QED BY <1>1, <1>5, <2>1 DEF Private
<1> QED BY <1>6, <1>7, <1>8, LocalStep

LEMMA StartHashStep ==
  ASSUME IInv, NEW r \in Req, StartHash(r)
  PROVE  IInv'
<1>1. /\ TypeOK /\ ReqOK(r) /\ Step(r) = "hash" /\ slots' = slots \cup {r}
      /\ UNCHANGED <<place, op, at, held, lock, committed, error, search, sent, restarts>>
  BY DEF IInv, StartHash, WantsSlot
<1>2. place[r] = "run"
  BY <1>1, NotCommitted DEF Waits
<1>3. TypeOK' /\ Private(r)
  BY <1>1 DEF TypeOK, Private
<1>4. Holds(r)'
  <2>1. Step(r)' = Step(r)
    BY <1>1 DEF Step
  <2> QED BY <2>1, <1>1, <1>2 DEF ReqOK, Holds
<1>5. Searching(r)' /\ Placed(r)' /\ Outcome(r)'
  BY <1>1 DEF ReqOK, Searching, Named, Placed, Outcome, AfterCommit
<1> QED BY <1>3, <1>4, <1>5, LocalStep DEF ReqOK

LEMMA EndHashStep ==
  ASSUME IInv, NEW r \in Req, EndHash(r)
  PROVE  IInv'
<1>1. /\ TypeOK /\ ReqOK(r) /\ Step(r) = "hash" /\ slots' = slots \ {r}
      /\ UNCHANGED <<op, held, lock, committed, search, sent, restarts>>
  BY DEF IInv, EndHash, ReqOK, Holds
<1>2. place[r] = "run" /\ r \notin committed /\ held[r] = "NONE" /\ lock # r
  BY <1>1, NotCommitted DEF Waits, ReqOK, Holds
<1>3. \/ StepDone(r) /\ UNCHANGED <<place, error>>
      \/ \E e \in Exceptions : Throw(r, e)
  <2>1. Raises.hash \subseteq Exceptions
    BY ExceptionFacts DEF Waits
  <2> QED BY <2>1 DEF EndHash
<1>4. ReqOK(r)' /\ TypeOK'
  <2>1. CASE StepDone(r) /\ UNCHANGED <<place, error>>
    <3>1. ReqOK(r)' /\ at' \in [Req -> 1 .. 8]
      BY <2>1, <1>1, <1>2, StepDoneOK DEF Waits
    <3> QED BY <3>1, <2>1, <1>1 DEF TypeOK
  <2>2. CASE \E e \in Exceptions : Throw(r, e)
    <3>1. PICK e \in Exceptions : Throw(r, e)
      BY <2>2
    <3>2. /\ ReqOK(r)' /\ place' \in [Req -> Places] /\ at' \in [Req -> 1 .. 8]
          /\ error' \in [Req -> Exceptions \cup {None}]
      BY <3>1, <1>1, <1>2, ThrowOK
    <3> QED BY <3>2, <1>1 DEF TypeOK
  <2> QED BY <2>1, <2>2, <1>3
<1>5. Private(r)
  BY <1>1, <1>3, MovesOneself DEF Private
<1> QED BY <1>4, <1>5, LocalStep

LEMMA FailStep ==
  ASSUME IInv, NEW r \in Req, Fail(r) \/ FailDead(r)
  PROVE  IInv'
<1>1. /\ TypeOK /\ ReqOK(r) /\ Step(r) \in Waits \ {"hash"}
      /\ UNCHANGED <<op, held, slots, lock, search, sent, restarts>>
  BY StepFacts DEF IInv, ReqOK, Fail, FailDead, resources
<1>2. place[r] = "run" /\ r \notin committed
  BY <1>1, NotCommitted
<1>3. PICK e \in Exceptions : Throw(r, e)
  BY <1>1, ExceptionFacts DEF Fail, FailDead
<1>4. committed' = committed \/ (committed' = committed \cup {r} /\ error'[r] = "UNEXPECTED")
  BY DEF Fail, FailDead
<1>5. r \in committed' => AfterCommit(r, e)
  BY <1>2, <1>3, <1>4 DEF Throw, TypeOK, IInv, AfterCommit
<1>6. r \notin slots' /\ (lock' = r => held'[r] = "OPEN")
  BY <1>1 DEF ReqOK, Holds
<1>7. /\ ReqOK(r)' /\ place' \in [Req -> Places] /\ at' \in [Req -> 1 .. 8]
      /\ error' \in [Req -> Exceptions \cup {None}]
  BY <1>1, <1>2, <1>3, <1>5, <1>6, ThrowOK
<1>8. TypeOK'
  BY <1>1, <1>4, <1>7 DEF TypeOK
<1>9. Private(r)
  <2>1. \A s \in Req \ {r} : s \in committed' <=> s \in committed
    BY <1>4
  <2> QED BY <2>1, <1>1, <1>3, MovesOneself DEF Private
<1> QED BY <1>7, <1>8, <1>9, LocalStep

-----------------------------------------------------------------------------
(* The way out *)

LEMMA RespondStep ==
  ASSUME IInv, NEW r \in Req, Respond(r)
  PROVE  IInv'
<1>1. /\ TypeOK /\ ReqOK(r) /\ place[r] = "run" /\ Step(r) = None
      /\ UNCHANGED <<op, held, slots, lock, committed, search, restarts>>
  BY DEF IInv, Respond, resources
<1>2. r \notin slots' /\ (lock' = r => held'[r] = "OPEN")
  BY <1>1, NoneIsNoWait DEF ReqOK, Holds, Waits
<1>3. CASE /\ Goto(r, "sent") /\ sent' = [sent EXCEPT ![r] = Append(@, "OK")]
           /\ at' = [at EXCEPT ![r] = 1] /\ UNCHANGED error
  <2>1. /\ place' = [place EXCEPT ![r] = "sent"] /\ place'[r] = "sent"
        /\ sent' = [sent EXCEPT ![r] = <<"OK">>] /\ sent'[r] = <<"OK">>
    BY <1>1, <1>3 DEF Goto, TypeOK, ReqOK, Placed
  <2>2. TypeOK' /\ Private(r)
    BY <1>1, <1>3, <2>1, ExceptionFacts DEF TypeOK, Places, Private
  <2>3. op[r] \in Writers => r \in committed
    <3>1. op[r] \in DOMAIN Script
      BY <1>1 DEF ReqOK, Placed
    <3>2. Script[op[r]] \in Seq(Waits) /\ Len(Script[op[r]]) \in 0 .. 7 /\ at[r] \in 1 .. 8
      BY <1>1, <3>1, ScriptFacts DEF TypeOK, GoodScript
    <3>3. ~(at[r] <= Len(Script[op[r]]))
      BY <1>1, <3>2, NoneIsNoWait DEF Step
    <3> QED BY <1>1, <3>2, <3>3 DEF ReqOK, Outcome
  <2>4. Searching(r)'
    BY <1>1, <2>1 DEF ReqOK, Searching
  <2>5. Placed(r)'
    BY <1>1, <2>1 DEF ReqOK, Placed
  <2>6. Holds(r)'
    BY <1>2, <2>1, NoneIsNoWait DEF Holds, Step, Waits
  <2>7. Outcome(r)'
    BY <1>1, <2>1, <2>3 DEF Outcome
  <2> QED BY <2>2, <2>4, <2>5, <2>6, <2>7, LocalStep DEF ReqOK
<1>4. CASE UNCHANGED sent
  <2>1. PICK e \in Exceptions :
          Throw(r, e) /\ AfterCommit(r, e)
    <3>1. sent[r] = <<>> /\ sent \in [Req -> Seq(Answers)]
      BY <1>1 DEF ReqOK, Placed, TypeOK
    <3>2. [sent EXCEPT ![r] = Append(@, "OK")][r] # sent[r]
      BY <3>1
    <3> QED BY <1>4, <3>2, ExceptionFacts DEF Respond, AfterCommit
  <2>2. /\ ReqOK(r)' /\ place' \in [Req -> Places] /\ at' \in [Req -> 1 .. 8]
        /\ error' \in [Req -> Exceptions \cup {None}]
    BY <1>1, <1>2, <1>4, <2>1, ThrowOK
  <2>3. TypeOK'
    BY <1>1, <1>4, <2>2 DEF TypeOK
  <2>4. Private(r)
    BY <1>1, <1>4, <2>1, MovesOneself DEF Private
  <2> QED BY <2>2, <2>3, <2>4, LocalStep
<1> QED BY <1>3, <1>4 DEF Respond

LEMMA CloseAfterStep ==
  ASSUME IInv, NEW r \in Req, CloseAfter(r)
  PROVE  IInv'
<1>1. /\ TypeOK /\ ReqOK(r) /\ place[r] = "sent" /\ EndTransaction(r)
      /\ UNCHANGED <<op, at, slots, committed, search, sent, restarts>>
  BY DEF IInv, CloseAfter, Rollback
<1>2. /\ held' \in [Req -> {"NONE", "OPEN", "DEAD"}] /\ lock' \in Req \cup {None}
      /\ held'[r] = "NONE" /\ lock' # r
      /\ \A s \in Req \ {r} : held'[s] = held[s] /\ (lock' = s => lock = s)
  BY <1>1, EndTransactionFacts
<1>3. /\ sent'[r] = <<"OK">> /\ search'[r] = None /\ op[r] \in DOMAIN Script
      /\ r \notin slots' /\ (op[r] \in Writers => r \in committed')
  BY <1>1, NoneIsNoWait DEF ReqOK, Searching, Placed, Outcome, Holds, Step, Waits
<1>4. /\ place' \in [Req -> Places] /\ error' \in [Req -> Exceptions \cup {None}]
      /\ place'[r] = "done" \/ (place'[r] = "raise" /\ error'[r] \in Exceptions)
      /\ \A s \in Req \ {r} : place'[s] = place[s] /\ error'[s] = error[s]
  <2>1. /\ "UNEXPECTED" \in Exceptions
        /\ place \in [Req -> Places] /\ error \in [Req -> Exceptions \cup {None}]
    BY <1>1, ExceptionFacts DEF TypeOK
  <2>2. \/ place' = [place EXCEPT ![r] = "done"] /\ error' = error
        \/ /\ place' = [place EXCEPT ![r] = "raise"]
           /\ error' = [error EXCEPT ![r] = "UNEXPECTED"]
    BY DEF CloseAfter, Goto
  <2> QED BY <2>1, <2>2 DEF Places
<1>5. TypeOK' /\ Private(r)
  BY <1>1, <1>2, <1>4 DEF TypeOK, Private
<1>6. Searching(r)' /\ Placed(r)'
  BY <1>1, <1>3, <1>4, ExceptionFacts DEF Searching, Placed
<1>7. Holds(r)'
  BY <1>2, <1>3, <1>4, NoneIsNoWait DEF Holds, HoldsNothing, Step, Waits
<1>8. Outcome(r)'
  BY <1>1, <1>3, <1>4, OneAnswer DEF Outcome
<1> QED BY <1>5, <1>6, <1>7, <1>8, LocalStep DEF ReqOK

LEMMA UnwindStep ==
  ASSUME IInv, NEW r \in Req, Unwind(r)
  PROVE  IInv'
<1> DEFINE e == IF held[r] = "DEAD" THEN "UNEXPECTED" ELSE error[r]
           f == IF e = "INTEGRITY" /\ op[r] = "REGISTER" THEN "APP" ELSE e
           searches == e = "INTEGRITY" /\ op[r] = "CREATE"
<1>1. /\ TypeOK /\ ReqOK(r) /\ place[r] = "fail" /\ EndTransaction(r)
      /\ UNCHANGED <<op, at, slots, committed, sent, restarts>>
  BY DEF IInv, Unwind, Rollback
<1>2. /\ held' \in [Req -> {"NONE", "OPEN", "DEAD"}] /\ lock' \in Req \cup {None}
      /\ held'[r] = "NONE" /\ lock' # r
      /\ \A s \in Req \ {r} : held'[s] = held[s] /\ (lock' = s => lock = s)
  BY <1>1, EndTransactionFacts
<1>3. /\ sent'[r] = <<>> /\ search[r] = None /\ op[r] \in DOMAIN Script
      /\ error[r] \in Exceptions /\ r \notin slots'
      /\ r \in committed => AfterCommit(r, error[r])
  BY <1>1, NoneIsNoWait DEF ReqOK, Searching, Placed, Outcome, Holds, Step, Waits
<1>4. f \in Exceptions /\ (r \in committed => AfterCommit(r, f))
  BY <1>3, ExceptionFacts DEF AfterCommit
<1>5. /\ place' = [place EXCEPT ![r] = IF searches THEN "search" ELSE "raise"]
      /\ error' = [error EXCEPT ![r] = f]
  BY DEF Unwind, Goto
<1>6. /\ place'[r] = (IF searches THEN "search" ELSE "raise") /\ error'[r] = f
      /\ place' \in [Req -> Places] /\ error' \in [Req -> Exceptions \cup {None}]
      /\ \A s \in Req \ {r} : place'[s] = place[s] /\ error'[s] = error[s]
  BY <1>1, <1>4, <1>5 DEF TypeOK, Places
<1>7. /\ search' \in [Req -> Searches \cup {None}]
      /\ \A s \in Req \ {r} : search'[s] = search[s]
      /\ IF searches THEN search'[r] \in Searches /\ SearchOK(search'[r])
                     ELSE search'[r] = None
  <2>1. CASE searches
    <3>1. PICK g \in ErrorGraphs : search' = [search EXCEPT ![r] = Begin(g)]
      BY <2>1 DEF Unwind
    <3>2. Begin(g) \in Searches /\ SearchOK(Begin(g))
      BY BeginOK, RequestPathAssumption
    <3> QED BY <2>1, <3>1, <3>2, <1>1 DEF TypeOK
  <2>2. CASE ~searches
    BY <2>2, <1>1, <1>3 DEF Unwind, TypeOK
  <2> QED BY <2>1, <2>2
<1>8. searches => f = "INTEGRITY"
  OBVIOUS
<1> HIDE DEF e, f, searches
<1>9. TypeOK' /\ Private(r)
  BY <1>1, <1>2, <1>6, <1>7 DEF TypeOK, Private
<1>10. Searching(r)'
  BY <1>6, <1>7, <1>8 DEF Searching
<1>11. Placed(r)'
  BY <1>1, <1>3, <1>4, <1>6 DEF Placed
<1>12. Holds(r)'
  BY <1>2, <1>3, <1>6, NoneIsNoWait DEF Holds, HoldsNothing, Step, Waits
<1>13. Outcome(r)'
  BY <1>1, <1>3, <1>4, <1>6, OneAnswer DEF Outcome, AfterCommit
<1> QED BY <1>9, <1>10, <1>11, <1>12, <1>13, LocalStep DEF ReqOK

LEMMA SearchStep ==
  ASSUME IInv, NEW r \in Req, Search(r)
  PROVE  IInv'
<1>1. /\ TypeOK /\ ReqOK(r) /\ place[r] = "search" /\ ~Over(search[r])
      /\ search' = [search EXCEPT ![r] = Visit(search[r])]
      /\ UNCHANGED <<place, op, at, held, slots, lock, committed, error, sent, restarts>>
  BY DEF IInv, Search, resources
<1>2. /\ Visit(search[r]) \in Searches /\ SearchOK(Visit(search[r]))
      /\ error[r] = "INTEGRITY"
  BY <1>1, VisitOK DEF ReqOK, Searching
<1>3. search'[r] = Visit(search[r])
  BY <1>1 DEF TypeOK
<1>4. TypeOK' /\ Private(r)
  BY <1>1, <1>2 DEF TypeOK, Private
<1>5. Searching(r)'
  BY <1>1, <1>2, <1>3 DEF Searching
<1>6. Step(r)' = Step(r)
  BY <1>1 DEF Step
<1>7. Placed(r)' /\ Holds(r)' /\ Outcome(r)'
  BY <1>1, <1>6 DEF ReqOK, Placed, Holds, HoldsNothing, Outcome, AfterCommit
<1> QED BY <1>4, <1>5, <1>7, LocalStep DEF ReqOK

LEMMA TranslateStep ==
  ASSUME IInv, NEW r \in Req, Translate(r)
  PROVE  IInv'
<1> DEFINE e == IF search[r].found = SkuConstraint THEN "APP" ELSE "INTEGRITY"
<1>1. /\ TypeOK /\ ReqOK(r) /\ place[r] = "search" /\ Over(search[r])
      /\ place' = [place EXCEPT ![r] = "raise"] /\ error' = [error EXCEPT ![r] = e]
      /\ UNCHANGED <<op, at, held, slots, lock, committed, search, sent, restarts>>
  BY DEF IInv, Translate, Goto, resources
<1>2. /\ search[r] \in Searches /\ SearchOK(search[r])
      /\ error[r] = "INTEGRITY" /\ sent[r] = <<>> /\ op[r] \in DOMAIN Script
  BY <1>1 DEF ReqOK, Searching, Placed
<1>3. /\ e \in Exceptions /\ place'[r] = "raise" /\ error'[r] = e
  BY <1>1, ExceptionFacts DEF TypeOK
<1>4. TypeOK' /\ Private(r)
  BY <1>1, <1>3 DEF TypeOK, Places, Private
<1>5. Named(r)'
  BY <1>1, <1>2, <1>3, SearchResult DEF Named
<1>6. r \notin committed
  BY <1>1, <1>2 DEF ReqOK, Outcome, AfterCommit
<1> HIDE DEF e
<1>7. Searching(r)'
  BY <1>3, <1>5 DEF Searching
<1>8. Placed(r)'
  BY <1>1, <1>2, <1>3 DEF Placed
<1>9. Holds(r)'
  BY <1>1, <1>3, NoneIsNoWait DEF ReqOK, Holds, HoldsNothing, Step, Waits
<1>10. Outcome(r)'
  BY <1>1, <1>2, <1>3, <1>6, OneAnswer DEF Outcome
<1> QED BY <1>4, <1>7, <1>8, <1>9, <1>10, LocalStep DEF ReqOK

LEMMA AnswerErrorStep ==
  ASSUME IInv, NEW r \in Req, AnswerError(r)
  PROVE  IInv'
<1> DEFINE a == Handler[error[r]]
<1>1. /\ TypeOK /\ ReqOK(r) /\ place[r] = "raise" /\ sent[r] = <<>>
      /\ place' = [place EXCEPT ![r] = "done"]
      /\ sent' = [sent EXCEPT ![r] = Append(@, a)]
      /\ UNCHANGED <<op, at, held, slots, lock, committed, error, search, restarts>>
  BY DEF IInv, AnswerError, Goto, resources
<1>2. /\ error[r] \in Exceptions /\ op[r] \in DOMAIN Script
      /\ r \in committed => AfterCommit(r, error[r])
  BY <1>1 DEF ReqOK, Placed, Outcome
<1>3. /\ a \in Answers /\ a # "OK"
      /\ r \in committed => a = "INTERNAL_SERVER_ERROR" \/ ReportsReuse(r, a)
  BY <1>2, ExceptionFacts DEF AfterCommit, ReportsReuse
<1> HIDE DEF a
<1>4. sent' = [sent EXCEPT ![r] = <<a>>] /\ sent'[r] = <<a>> /\ place'[r] = "done"
  BY <1>1 DEF TypeOK
<1>5. TypeOK' /\ Private(r)
  BY <1>1, <1>3, <1>4 DEF TypeOK, Places, Private
<1>6. Searching(r)'
  BY <1>1, <1>4 DEF ReqOK, Searching, Named
<1>7. Placed(r)'
  BY <1>1, <1>2, <1>3, <1>4 DEF Placed
<1>8. Holds(r)'
  BY <1>1, <1>4, NoneIsNoWait DEF ReqOK, Holds, HoldsNothing, Step, Waits
<1>9. Outcome(r)'
  BY <1>1, <1>3, <1>4, OneAnswer DEF Outcome, ReportsReuse
<1> QED BY <1>5, <1>6, <1>7, <1>8, <1>9, LocalStep DEF ReqOK

LEMMA ReraiseStep ==
  ASSUME IInv, NEW r \in Req, Reraise(r)
  PROVE  IInv'
<1>1. /\ TypeOK /\ ReqOK(r) /\ place[r] = "raise" /\ sent[r] # <<>>
      /\ place' = [place EXCEPT ![r] = "done"] /\ place'[r] = "done"
      /\ UNCHANGED <<op, at, held, slots, lock, committed, error, search, sent, restarts>>
  BY DEF IInv, Reraise, Goto, resources, TypeOK
<1>2. sent[r] = <<"OK">> /\ op[r] \in DOMAIN Script
  BY <1>1 DEF ReqOK, Placed
<1>3. TypeOK' /\ Private(r)
  BY <1>1 DEF TypeOK, Places, Private
<1>4. Searching(r)'
  BY <1>1 DEF ReqOK, Searching, Named
<1>5. Placed(r)'
  BY <1>1, <1>2, ExceptionFacts DEF Placed
<1>6. Holds(r)'
  BY <1>1, NoneIsNoWait DEF ReqOK, Holds, HoldsNothing, Step, Waits
<1>7. Outcome(r)'
  BY <1>1, <1>2 DEF ReqOK, Outcome
<1> QED BY <1>3, <1>4, <1>5, <1>6, <1>7, LocalStep DEF ReqOK

\* A restart of the database: whoever had the lock loses it with its connection.
LEMMA RestartStep ==
  ASSUME IInv, DatabaseRestart
  PROVE  IInv'
<1>1. /\ TypeOK /\ lock' = None /\ restarts' \in 0 .. MaxRestarts
      /\ held' = [s \in Req |-> IF held[s] = "OPEN" THEN "DEAD" ELSE held[s]]
      /\ UNCHANGED <<place, op, at, slots, committed, error, search, sent>>
  BY RequestPathAssumption DEF IInv, DatabaseRestart, TypeOK
<1>2. TypeOK'
  BY <1>1 DEF TypeOK
<1>3. ASSUME NEW r \in Req PROVE ReqOK(r)'
  <2>1. ReqOK(r) /\ Step(r)' = Step(r) /\ lock' # r /\ (held[r] = "NONE" => held'[r] = "NONE")
    BY <1>1, NoneIsNoWait DEF IInv, Step
  <2>2. Searching(r)' /\ Placed(r)' /\ Outcome(r)'
    BY <2>1, <1>1 DEF ReqOK, Searching, Named, Placed, Outcome, AfterCommit
  <2>3. Holds(r)'
    BY <2>1, <1>1 DEF ReqOK, Holds, HoldsNothing
  <2> QED BY <2>2, <2>3 DEF ReqOK
<1> QED BY <1>2, <1>3 DEF IInv

-----------------------------------------------------------------------------
(* The invariant *)

LEMMA InitIInv == Init => IInv
<1> SUFFICES ASSUME Init PROVE IInv
  OBVIOUS
<1>1. /\ place = [r \in Req |-> "idle"] /\ op = [r \in Req |-> None]
      /\ at = [r \in Req |-> 1] /\ held = [r \in Req |-> "NONE"] /\ slots = {}
      /\ lock = None /\ committed = {} /\ error = [r \in Req |-> None]
      /\ search = [r \in Req |-> None] /\ sent = [r \in Req |-> <<>>] /\ restarts = 0
  BY DEF Init
<1>2. TypeOK
  BY <1>1, RequestPathAssumption DEF TypeOK, Places
<1>3. ASSUME NEW r \in Req PROVE ReqOK(r)
  <2>1. place[r] = "idle" /\ sent[r] # <<"OK">> /\ search[r] = None /\ lock # r
    BY <1>1, OneAnswer, NoneIsNoWait
  <2>2. Searching(r) /\ Placed(r)
    BY <2>1, <1>1 DEF Searching, Placed
  <2>3. Holds(r)
    BY <2>1, <1>1, NoneIsNoWait DEF Holds, HoldsNothing, Step, Waits
  <2>4. Outcome(r)
    BY <2>1 DEF Outcome
  <2> QED BY <2>2, <2>3, <2>4 DEF ReqOK
<1> QED BY <1>2, <1>3 DEF IInv

LEMMA NextIInv == IInv /\ [Next]_vars => IInv'
<1> SUFFICES ASSUME IInv, [Next]_vars PROVE IInv'
  OBVIOUS
<1>1. CASE UNCHANGED vars
  <2>1. /\ place' = place /\ op' = op /\ at' = at /\ held' = held /\ slots' = slots
        /\ lock' = lock /\ committed' = committed /\ error' = error
        /\ search' = search /\ sent' = sent /\ restarts' = restarts
    BY <1>1 DEF vars
  <2>2. TypeOK'
    BY <2>1 DEF IInv, TypeOK
  <2>3. ASSUME NEW r \in Req PROVE ReqOK(r)'
    <3>1. ReqOK(r) /\ Step(r)' = Step(r)
      BY <2>1 DEF IInv, Step
    <3>2. Searching(r)' /\ Placed(r)' /\ Holds(r)' /\ Outcome(r)'
      BY <2>1, <3>1
         DEF ReqOK, Searching, Named, Placed, Holds, HoldsNothing, Outcome, AfterCommit
    <3> QED BY <3>2 DEF ReqOK
  <2> QED BY <2>2, <2>3 DEF IInv
<1>2. ASSUME NEW r \in Req, Arrival(r) PROVE IInv'
  BY <1>2, ArriveStep DEF Arrival
<1>3. ASSUME NEW r \in Req, Mishap(r) PROVE IInv'
  BY <1>3, RefuseStep, PoolTimeoutStep, FailStep DEF Mishap
<1>4. ASSUME NEW r \in Req, Advance(r) PROVE IInv'
  BY <1>4, NotFoundStep, ConnectStep, StatementStep, StartHashStep, EndHashStep,
     FailStep, RespondStep, CloseAfterStep, UnwindStep, SearchStep, TranslateStep,
     AnswerErrorStep, ReraiseStep DEF Advance
<1>5. CASE DatabaseRestart
  BY <1>5, RestartStep
<1> QED BY <1>1, <1>2, <1>3, <1>4, <1>5 DEF Next, Terminated

\* The invariant holds in every reachable state.
THEOREM Invariance == Spec => []IInv
BY InitIInv, NextIInv, PTL DEF Spec

\* Every reachable state is well typed.
THEOREM TypeCorrect == Spec => []TypeOK
<1>1. IInv => TypeOK
  BY DEF IInv
<1> QED BY <1>1, Invariance, PTL

\* Whoever waits for a connection or a slot holds nothing that others wait for,
\* for every size of the pool, however many slots and whatever fails (login,
\* register and change_password end their transaction before they hash).
THEOREM NoWaitWhileHolding == Spec => []WaitersHoldNothing
<1>1. IInv => WaitersHoldNothing
  <2> SUFFICES ASSUME IInv, NEW r \in Req
               PROVE  /\ WantsConnection(r) \/ WantsSlot(r) => HoldsNothing(r)
                      /\ r \in slots => held[r] = "NONE" /\ lock # r
    BY DEF WaitersHoldNothing
  <2>1. Holds(r)
    BY DEF IInv, ReqOK
  <2> QED BY <2>1 DEF Holds, HoldsNothing, WantsConnection, WantsSlot
<1> QED BY <1>1, Invariance, PTL

\* Whatever raises, a request that is done, or is being answered with an error,
\* has given everything back (get_session, session.begin(), async with limiter).
THEOREM NothingLeaks == Spec => []NothingKept
<1>1. IInv => NothingKept
  <2> SUFFICES ASSUME IInv PROVE NothingKept
    OBVIOUS
  <2>1. lock # None => held[lock] = "OPEN"
    BY DEF IInv, TypeOK, ReqOK, Holds
  <2>2. ASSUME NEW r \in Req
        PROVE  /\ place[r] \in {"search", "raise", "done"} => HoldsNothing(r)
               /\ sent[r] # <<>> /\ sent[r] # <<"OK">> => HoldsNothing(r)
    <3>1. Holds(r) /\ Placed(r) /\ place[r] \in Places
      BY DEF IInv, ReqOK, TypeOK
    <3> QED BY <3>1 DEF Holds, Placed, Places
  <2> QED BY <2>1, <2>2 DEF NothingKept
<1> QED BY <1>1, Invariance, PTL

\* A success has been committed and a refusal has changed nothing, whichever
\* operation it is; only a refresh reports a reused token after its commit.
THEOREM OutcomesAreTold == Spec => []AnswersTellTheOutcome
<1>1. IInv => AnswersTellTheOutcome
  <2> SUFFICES ASSUME IInv, NEW r \in Req, NEW i \in 1 .. Len(sent[r])
               PROVE  /\ sent[r][i] = "OK" /\ op[r] \in Writers => r \in committed
                      /\ sent[r][i] \notin {"OK", "INTERNAL_SERVER_ERROR"}
                           /\ r \in committed => ReportsReuse(r, sent[r][i])
    BY DEF AnswersTellTheOutcome
  <2>1. Placed(r) /\ Outcome(r) /\ place[r] \in Places
    BY DEF IInv, ReqOK, TypeOK
  <2>2. CASE sent[r] = <<>>
    BY <2>2
  <2>3. CASE sent[r] = <<"OK">>
    BY <2>1, <2>3 DEF Outcome
  <2>4. CASE place[r] = "done"
    <3>1. PICK a \in Answers : sent[r] = <<a>>
      BY <2>1, <2>4 DEF Placed
    <3>2. i = 1 /\ sent[r][i] = a
      BY <3>1
    <3>3. a = "OK" => sent[r] = <<"OK">>
      BY <3>1
    <3>4. /\ sent[r] \in {<<"OK">>, <<"INTERNAL_SERVER_ERROR">>}
               => a \in {"OK", "INTERNAL_SERVER_ERROR"}
          /\ sent[r] = <<"APP_ERROR">> => a = "APP_ERROR"
      BY <3>1, OneAnswer
    <3> QED BY <2>1, <2>4, <3>2, <3>3, <3>4 DEF Outcome, ReportsReuse
  <2> QED BY <2>1, <2>2, <2>3, <2>4 DEF Placed, Places
<1> QED BY <1>1, Invariance, PTL

\* On every exception graph, cyclic ones included, a conflict is reported only
\* if SKU_UNIQUE_CONSTRAINT is linked from the error, and passed on only if
\* another constraint is linked too or none is (get_constraint_name).
THEOREM ConflictsAreNamed == Spec => []ConflictIsNamed
<1>1. IInv => ConflictIsNamed
  BY DEF IInv, ReqOK, Searching, Named, ConflictIsNamed
<1> QED BY <1>1, Invariance, PTL

\* No request is answered twice, also when its session's exit fails after the
\* response has started (UnexpectedErrorMiddleware).
THEOREM OneResponse == Spec => AnsweredOnce
<1> DEFINE Once == \A r \in Req : sent[r] # <<>> => sent'[r] = sent[r]
<1>1. ASSUME IInv, [Next]_vars PROVE Once
  <2>1. CASE UNCHANGED sent
    BY <2>1
  <2>2. ASSUME NEW r \in Req, Respond(r) \/ AnswerError(r) PROVE Once
    <3>1. sent[r] = <<>> /\ \A s \in Req \ {r} : sent'[s] = sent[s]
      BY <1>1, <2>2 DEF IInv, ReqOK, Placed, Respond, AnswerError, TypeOK
    <3> QED BY <3>1
  <2>3. \/ UNCHANGED sent
        \/ \E r \in Req : Respond(r) \/ AnswerError(r)
    BY <1>1 DEF Next, Terminated, vars, Arrival, Advance, Mishap, Arrive, NotFound,
       Refuse, Connect, PoolTimeout, Read, EndRead, Lock, Commit, StartHash, EndHash, Fail,
       FailDead, CloseAfter,
       Unwind, Search, Translate, Reraise, DatabaseRestart
  <2> QED BY <2>1, <2>2, <2>3
<1> QED BY <1>1, Invariance, PTL DEF Spec, AnsweredOnce

=============================================================================
