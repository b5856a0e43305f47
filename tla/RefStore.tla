------------------------------ MODULE RefStore ------------------------------
(***************************************************************************)
(* What the git data server promises about branches, with every request    *)
(* served in one step: a branch is created once, and from then on moves    *)
(* only to a commit that descends from its present value, unless it is one *)
(* that some client forces the branch to.                                  *)
(***************************************************************************)
CONSTANTS
    Repos,              \* repositories
    Branches,           \* branch names
    Objects,            \* what a branch may be set to
    NoSha,              \* an absent branch
    Initial,            \* the branch tables the server may start with
    MayForce(_, _, _),  \* MayForce(k, b, c): is branch b of k forced to c?
    Descends(_, _)      \* Descends(a, c): a is a proper ancestor of c

VARIABLE heads          \* heads[k][b]: the object branch b of repository k names

RefInit == heads \in Initial

(* POST /git/refs that answers 201. *)
CreateRef(k, b, c) ==
    /\ heads[k][b] = NoSha
    /\ heads' = [heads EXCEPT ![k][b] = c]

(* PATCH /git/refs/heads/b that answers 200 and changes the branch. *)
UpdateRef(k, b, c) ==
    /\ heads[k][b] # NoSha
    /\ MayForce(k, b, c) \/ Descends(heads[k][b], c)
    /\ heads' = [heads EXCEPT ![k][b] = c]

RefNext ==
    \E k \in Repos, b \in Branches, c \in Objects :
        CreateRef(k, b, c) \/ UpdateRef(k, b, c)

RefSpec == RefInit /\ [][RefNext]_heads
=============================================================================
