--------------------------- MODULE DigestJobsDocs ---------------------------
(***************************************************************************)
(* What a document of the repository says of digest jobs, stated over      *)
(* DigestJobs.  It does not hold of the code; a run shows how it fails.    *)
(***************************************************************************)
EXTENDS DigestJobs

\* CURRENT_API_SUMMARY.md: jobs are told apart by their scope, so a request is
\* refused only because of a job of the same scope.
RefusedForOwnScope ==
    \A a \in Apis : pc[a] = "publish" /\ KeyTaken(cur[a]) =>
        \E j \in Jobs : SameKey(j, cur[a]) /\ status[j] \in ActiveStatuses
                        /\ scopeOf[j] = scopeOf[cur[a]]
=============================================================================
