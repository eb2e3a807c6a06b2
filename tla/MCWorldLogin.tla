----------------------------- MODULE MCWorldLogin -----------------------------
EXTENDS WorldLogin, TLC
CONSTANTS s1, s2, s3, a1, a2, a3, w1, w2
\* s1 and s2 log in to the same account, s3 to another.
TwoAccounts == [s \in Sockets |-> IF s = s3 THEN a2 ELSE a1]
\* Every connection its own account.
OwnAccounts == [s \in Sockets |-> CASE s = s1 -> a1 [] s = s2 -> a2 [] s = s3 -> a3]
\* One connection sends a second CMSG_AUTH_SESSION; or none does.
FirstTwice == [s \in Sockets |-> IF s = s1 THEN 2 ELSE 1]
AllOnce == [s \in Sockets |-> 1]
\* The workers, and the connections with their accounts, can be exchanged.
AccountsToo(p) == [x \in {s1, s2, s3, a1, a2, a3} |->
                     IF x \in {s1, s2, s3} THEN p[x]
                     ELSE OwnAccounts[p[CHOOSE s \in Sockets : OwnAccounts[s] = x]]]
Symmetric == Permutations({w1, w2})
               \cup {AccountsToo(p) : p \in Permutations({s1, s2, s3})}
===============================================================================
