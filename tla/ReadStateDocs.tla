---------------------------- MODULE ReadStateDocs ---------------------------
(* What the documents say of the read flag and the code does not do.        *)
EXTENDS ReadState

\* docs/security/SECURITY.md:46-53: once the provider has removed the label,
\* emails.is_read is set and the action is written.  The request does not write
\* the column when it loaded the value it assigns, though a sync may have
\* committed the other one since (services/email_service.py:242); the row is
\* wrong even if the flag of the provider is still the one it set.
ExecutedStored ==
    [][\A p \in Marks : /\ audit[p] = "none" /\ audit'[p] = "executed"
                        /\ remote[target[p]] = wanted[p]
                        => isRead'[target[p]] = wanted[p]]_vars
=============================================================================
