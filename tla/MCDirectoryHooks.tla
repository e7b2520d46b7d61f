--------------------------- MODULE MCDirectoryHooks ---------------------------
(* Two cases of one directory and one of another, below one hook root.     *)
EXTENDS DirectoryHooks
CONSTANTS p1, p2, login, logout, order, tests, api, shop
Chains == [c \in Cases |-> IF c = order THEN <<tests, shop>> ELSE <<tests, api>>]
===============================================================================
