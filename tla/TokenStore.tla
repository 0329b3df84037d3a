---- MODULE TokenStore ----
(***************************************************************************)
(* What the file-based token store promises: each directory holds one      *)
(* entry, as in TokenCache, which a write replaces in one step and only as *)
(* StoreAllowed says, and which only a removal takes away.  A writer whose *)
(* check is out of date may overwrite or spoil what another one wrote.     *)
(***************************************************************************)
CONSTANTS
  Dirs,     \* the directories of the store
  Tokens, None

INSTANCE TokenCache

VARIABLES
  entry,     \* the entry of each directory
  racing,    \* the directories with a writer whose check is out of date
  removing   \* those that somebody is removing

Init == entry = [dir \in Dirs |-> NoToken]

Store(dir, new) ==
  /\ StoreAllowed(entry[dir], new)
  /\ entry' = [entry EXCEPT ![dir] = new]

Overwrite(dir, new) ==
  /\ dir \in racing
  /\ entry' = [entry EXCEPT ![dir] = WriteOver(@, new)]

\* A paid token goes before the pending one behind it.
Remove(dir) ==
  /\ dir \in removing \cup racing
  /\ \/ entry' = [entry EXCEPT ![dir] = NoToken]
     \/ /\ entry[dir].paid
        /\ \E t \in Tokens : entry' = [entry EXCEPT ![dir] = Pending(t)]

Next == \E dir \in Dirs :
  \/ \E new \in Entry : Store(dir, new) \/ Overwrite(dir, new)
  \/ Remove(dir)

Spec == Init /\ [][Next]_entry
====
