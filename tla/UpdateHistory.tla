---------------------------- MODULE UpdateHistory ----------------------------
(***************************************************************************)
(* A service bunch that remembers what start_update found in its vectors.  *)
(* The variable found is not in the code: it is written when a StartUpdate *)
(* is taken from the queue, forgotten when the loop is left, and restricts *)
(* no step.  What a whole update does, several spawns, sleeps and          *)
(* terminations long, can be told from it at the end of the loop.          *)
(***************************************************************************)
EXTENDS ServiceBunch

VARIABLE found \* the two vectors as the update found them

hvars == <<vars, found>>

Nothing == [old |-> <<>>, left |-> <<>>]

HInit == Init /\ found = Nothing

Remember ==
    found' = IF pc = "select" /\ pc' = "loop"
             THEN [old |-> stable_connections, left |-> new_connections]
             ELSE IF pc' \in {"loop", "rolling"} THEN found ELSE Nothing

HNext == Next /\ Remember

HSpec == HInit /\ [][HNext]_hvars

-----------------------------------------------------------------------------
\* In a bunch whose run succeeded, a rolling update that gets to the end of its
\* loop (mod.rs:309-313, 319-366) has replaced the stable units it found one for
\* one: none of them is listed any more, and there is one new unit for each,
\* neither more nor fewer, however often a check, a restart or an update that was
\* given up came before.  The units such an update had left in new_connections are
\* still there, beside these.  All were started from the path of the new
\* executable; what file was there when an earlier update started one of them, it
\* does not say.
UpdateReplacesAll ==
    [][(pc = "loop" /\ pc' = "announcing" /\ state = "Updating" /\ run_ok)
         => /\ ToSet(found.old) \cap Registered' = {}
            /\ ToSet(found.left) \subseteq ToSet(stable_connections')
            /\ Len(stable_connections') = Len(found.left) + Len(found.old)
            /\ \A u \in ToSet(stable_connections') : units[u].version = "New"]_hvars
=============================================================================
