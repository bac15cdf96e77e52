----------------------------- MODULE MCAccounts -----------------------------
(***************************************************************************)
(* The jobs that import upstream accounts, and the accounts once imported: *)
(* a family of OAuth accounts and a one-time account.  The two share no    *)
(* state: focus, fixed in the initial state, says which of them moves, and *)
(* the other rests in one of its initial states.                           *)
(***************************************************************************)
EXTENDS ImportJobs, AccountPool

CONSTANTS r1, r2, u1, a1, a2, o1, c1, Focused

VARIABLE focus

\* Two operator calls, one beside a fault, or a job left alone with two faults.
MCBudgets ==
    {[calls |-> 2, faults |-> 0], [calls |-> 1, faults |-> 1], [calls |-> 0, faults |-> 2]}

\* A pause and a resume, and nothing else goes wrong.
NoFaults == {[calls |-> 2, faults |-> 0]}

\* An OAuth account under two calls, with a one-time account under one; a family
\* of two whose refresh is left to the loop, and one under a call.
MCStocks ==
    {[accounts |-> {a1}, calls |-> 2, expiries |-> 1, faults |-> 0],
     [accounts |-> {a1, o1}, calls |-> 1, expiries |-> 1, faults |-> 1],
     [accounts |-> {a1, a2}, calls |-> 0, expiries |-> 2, faults |-> 2],
     [accounts |-> {a1, a2}, calls |-> 1, expiries |-> 1, faults |-> 0]}

MCFamily == [a \in OAuth |-> "family"]

-----------------------------------------------------------------------------
accountsVars == <<focus, vars, poolVars>>

AtRest(component, state) == focus = component \/ state

AccountsInit ==
    /\ focus \in Focused
    /\ Init
    /\ PoolInit /\ AtRest("pool", poolCalls = 2 /\ cred[a1] = NewCredential(0))

ImportDoes(A) == focus = "import" /\ A /\ UNCHANGED <<focus, poolVars>>
PoolDoes(A) == focus = "pool" /\ A /\ UNCHANGED <<focus, vars>>

AccountsNext == ImportDoes(Next) \/ PoolDoes(PoolNext)

\* The fairness of ImportJobs and of AccountPool.
AccountsSpec ==
    /\ AccountsInit /\ [][AccountsNext]_accountsVars
    /\ \A r \in Runners : WF_accountsVars(ImportDoes(RunJob(r)))
    /\ \A u \in Operators : WF_accountsVars(ImportDoes(Serve(u)))
    /\ WF_accountsVars(ImportDoes(ResumeRecoverableJobs))
    /\ \A w \in Workers : WF_accountsVars(PoolDoes(Work(w)))
    /\ WF_accountsVars(PoolDoes(LoopOn))
=============================================================================
