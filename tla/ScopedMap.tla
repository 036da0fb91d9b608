----------------------------- MODULE ScopedMap -----------------------------
(***************************************************************************)
(* The tables of the type checker and of the backend                       *)
(* (amun_scoped_map.hpp): a stack of maps, the innermost scope last.       *)
(* Levels count from 1 here and from 0 in the code.                        *)
(***************************************************************************)
EXTENDS Integers, Sequences

push_new_scope(scopes)    == Append(scopes, <<>>)
pop_current_scope(scopes) == SubSeq(scopes, 1, Len(scopes) - 1)
current(scopes)           == scopes[Len(scopes)]

Bind(map, k, v) == [x \in DOMAIN map \cup {k} |-> IF x = k THEN v ELSE map[x]]

lookup_on_current(scopes, k) == k \in DOMAIN current(scopes)

\* An entry of the current scope is kept: the caller is told by what define returns.
FreeAnyway(scopes, k) == TRUE    \* mutant: define overwrites
Free(scopes, k) == k \notin DOMAIN current(scopes)
define(scopes, k, v) ==
  IF Free(scopes, k)
  THEN [scopes EXCEPT ![Len(scopes)] = Bind(@, k, v)]
  ELSE scopes

is_defined(scopes, k) == \E i \in DOMAIN scopes : k \in DOMAIN scopes[i]

\* The level of the innermost scope with that key; 0 when there is none.
lookup_with_level(scopes, k) ==
  IF is_defined(scopes, k)
  THEN CHOOSE i \in DOMAIN scopes :
         /\ k \in DOMAIN scopes[i]
         /\ \A j \in i + 1 .. Len(scopes) : k \notin DOMAIN scopes[j]
  ELSE 0

lookup(scopes, k) == scopes[lookup_with_level(scopes, k)][k]

=============================================================================
