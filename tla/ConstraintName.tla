--------------------------- MODULE ConstraintName ---------------------------
(***************************************************************************)
(* get_constraint_name: the search of an IntegrityError and the exceptions *)
(* linked from it (orig, __cause__, __context__) for the name of the       *)
(* violated constraint.  Exceptions link back to one another, so this is a *)
(* search of a graph; one Visit is one round of the `while pending' loop.  *)
(***************************************************************************)
EXTENDS Integers, Sequences

CONSTANTS
  Errors,  \* exception objects
  Raised,  \* the IntegrityError the search starts from
  Names,   \* constraint names
  None     \* no constraint_name attribute; nothing found

\* What an exception offers: its name, and orig, cause and context in order.
Graphs == [Errors -> [name : Names \cup {None}, links : Seq(Errors)]]

Searches == [graph : Graphs, pending : Seq(Errors), visited : SUBSET Errors,
             found : Names \cup {None}]

ASSUME RaisedAssumption == Raised \in Errors
ASSUME NamesAssumption == None \notin Names

Begin(g) == [graph |-> g, pending |-> <<Raised>>, visited |-> {}, found |-> None]

Over(s) == s.found # None \/ s.pending = <<>>

Top(s)    == s.pending[Len(s.pending)]
Popped(s) == SubSeq(s.pending, 1, Len(s.pending) - 1)

\* Mutants: links that are no exceptions are pushed too; only the raised
\* error's own links are followed; a visited exception is not popped.
VisitNoFilter(s) ==
  [s EXCEPT !.pending = Popped(s) \o s.graph[Top(s)].links \o <<None>>]
VisitOrigOnly(s) ==
  LET e == s.graph[Top(s)]
  IN [s EXCEPT !.pending = IF Top(s) = Raised THEN e.links ELSE <<>>, !.found = e.name]
VisitPopsLate(s) ==
  LET e == s.graph[Top(s)]
  IN IF Top(s) \in s.visited THEN s
     ELSE [s EXCEPT !.pending = Popped(s) \o (IF e.name = None THEN e.links ELSE <<>>),
                    !.visited = @ \cup {Top(s)},
                    !.found   = e.name]

Visit(s) ==
  LET e == s.graph[Top(s)]
  IN IF Top(s) \in s.visited
     THEN [s EXCEPT !.pending = Popped(s)]
     ELSE [graph   |-> s.graph,
           pending |-> Popped(s) \o (IF e.name = None THEN e.links ELSE <<>>),
           visited |-> s.visited \cup {Top(s)},
           found   |-> e.name]

-----------------------------------------------------------------------------
(* What the search is for, stated without it *)

Elements(q) == {q[i] : i \in 1 .. Len(q)}

Closed(g, S) == Raised \in S /\ \A e \in S : Elements(g[e].links) \subseteq S

\* The exceptions linked from the raised one, directly or not.
Reachable(g) == {e \in Errors : \A S \in SUBSET Errors : Closed(g, S) => e \in S}

NamesIn(g) == {g[e].name : e \in Reachable(g)} \ {None}

=============================================================================
