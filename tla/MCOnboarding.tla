---------------------------- MODULE MCOnboarding ----------------------------
(* Small instances of Onboarding for TLC.                                  *)
EXTENDS Onboarding, TLC

CONSTANTS c1, c2, c3,       \* customers
          b2, b2again, b3   \* registrations of c2 and c3

\* UNAS may describe one registration twice in different words.
Whose == [b \in Bodies |-> IF b = b3 THEN c3 ELSE c2]

\* c1 is a customer of before, the parameters are empty and a page holds one.
Empty  == [shop |-> <<c1>>, param |-> [c \in Customers |-> None],
           pageSize |-> 1]

\* All are customers already, c1 and c2 have the same token from elsewhere, and
\* a page holds two.
Shared == [shop |-> <<c1, c2, c3>>,
           param |-> [c \in Customers |-> IF c = c3 THEN None ELSE -1],
           pageSize |-> 2]

EmptyOrShared == {Empty, Shared}
OnlyEmpty     == {Empty}
=============================================================================
