----------------------------- MODULE MCGitShim ------------------------------
(***************************************************************************)
(* A fork and its merge: base <- {left, right} <- merge, on one branch of  *)
(* one repository unless a configuration says otherwise.                   *)
(***************************************************************************)
EXTENDS GitShim, TLC

CONSTANTS base, left, right, merge, repo1, repo2, main

MCObjects == {base, left, right, merge}
MCParents ==
    [c \in MCObjects |-> CASE c = base -> {}
                           [] c \in {left, right} -> {base}
                           [] c = merge -> {left, right}]
MCAncestor ==
    {<<base, left>>, <<base, right>>, <<base, merge>>, <<left, merge>>, <<right, merge>>}

Req(op, k, sha, force, etag) ==
    [op |-> op, repo |-> k, branch |-> main, sha |-> sha, force |-> force, etag |-> etag]

(* The server starts on a fresh root, on a branch at base with the whole   *)
(* fork uploaded, or on one where left, a parent of merge, is missing.     *)
MCDisk(rs, os, h) ==
    [repos |-> rs, objects |-> [k \in Repos |-> os], heads |-> [k \in Repos |-> [b \in Branches |-> h]]]
FreshDisk == MCDisk({}, {}, NoSha)
ForkDisk == MCDisk(Repos, MCObjects, base)
GapDisk == MCDisk(Repos, MCObjects \ {left}, base)

PushDisks == {ForkDisk, GapDisk}
AllDisks == {FreshDisk, ForkDisk}
OneDisk == {ForkDisk}

(* Two agents push the two sides of the fork and its merge, and read.      *)
PushInputs ==
    {Req("patchRef", repo1, c, FALSE, NoSha) : c \in {left, right, merge}}
    \cup {Req("getRef", repo1, NoSha, FALSE, NoSha)}

(* Every operation, forced updates, absent fields and a matching ETag.     *)
AllInputs ==
    {Req("postRef", repo1, c, FALSE, NoSha) : c \in {base, left, NoSha}}
    \cup {Req("patchRef", repo1, c, FALSE, NoSha) : c \in {right, merge, NoSha}}
    \cup {Req("patchRef", repo1, c, TRUE, NoSha) : c \in {left, NoSha}}
    \cup {Req("getRef", repo1, NoSha, FALSE, e) : e \in {NoSha, base}}
    \cup {Req(op, repo1, left, FALSE, NoSha) : op \in {"postObject", "getObject"}}
    \cup {Req("postObject", repo1, NoSha, FALSE, NoSha)}

(* Agents of two repositories, for the liveness run.                       *)
TwoRepoInputs ==
    {Req("patchRef", k, left, FALSE, NoSha) : k \in {repo1, repo2}}
    \cup {Req("getRef", k, NoSha, FALSE, NoSha) : k \in {repo1, repo2}}

Symmetry == Permutations(Requests)
=============================================================================
