-------------------------- MODULE MCNativeScheduler --------------------------
(***************************************************************************)
(* TLC instance of NativeScheduler: two jobs with the same first page, and *)
(* two short ones, one of them urgent.  Pages are integers.                *)
(***************************************************************************)
EXTENDS NativeScheduler, TLC

CONSTANTS j1, j2, j3, j4

MCJobs == {j1, j2, j3, j4}
Job(prompt, tail, new, priority) ==
  [prompt |-> prompt, tail |-> tail, new |-> new, priority |-> priority]
MCKind ==
  j1 :> Job(<<"a">>, 0, 2, 0) @@ j2 :> Job(<<"a">>, 0, 2, 0)
    @@ j3 :> Job(<<>>, 1, 2, 1) @@ j4 :> Job(<<>>, 1, 1, 0)

MCPrefixes == UNION {PrefixesOf(MCKind[j].prompt) : j \in MCJobs}

=============================================================================
