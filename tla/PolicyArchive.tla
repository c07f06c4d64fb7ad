--------------------------- MODULE PolicyArchive ----------------------------
(***************************************************************************)
(* Versioned owner policies and the bindings that name them                *)
(* (openline_lite/policy_root.py).  A policy is a function from section    *)
(* names to section contents; of a content only its mandate_capacity is    *)
(* kept.  object_hash is injective, so a hash is the hashed object.        *)
(***************************************************************************)
EXTENDS Integers, Sequences, FiniteSets

CONSTANTS Versions,  \* the (policy_id, policy_version) labels in use
          Names,     \* section names
          Policies,  \* the sections a version may be given
          Absent     \* no entry, no ledger

ASSUME PolicyConstants ==
    \A p \in Policies : DOMAIN p \subseteq Names /\ p \in [DOMAIN p -> Int]

VARIABLE archive     \* archive[v]: root hash and content kept for v, or Absent

Sections(p) == DOMAIN p

\* root_hash_for: the label is part of what is hashed.
RootHash(v, p) == <<v, p>>

Roots == Versions \X Policies

Binding == [version: Versions, root: Roots, section: Names, hash: Int]

MakeBinding(v, p, s) ==
    [version |-> v, root |-> RootHash(v, p), section |-> s, hash |-> p[s]]

\* A deviation: the section matches and the root hash is not recomputed.
BindsSection(b) ==
    /\ archive[b.version] # Absent
    /\ b.section \in Sections(archive[b.version].content)
    /\ b.hash = archive[b.version].content[b.section]

\* verify_binding: every hash is recomputed from the content kept.
Verifies(b) ==
    /\ archive[b.version] # Absent
    /\ b.root = RootHash(b.version, archive[b.version].content)
    /\ b.section \in Sections(archive[b.version].content)
    /\ b.hash = archive[b.version].content[b.section]

ArchiveTypeOK ==
    archive \in [Versions -> [root: Roots, content: Policies] \cup {Absent}]

ArchiveInit == archive = [v \in Versions |-> Absent]

\* A deviation: a label may be admitted again with other content.
Readmit(v, p) ==
    archive' = [archive EXCEPT ![v] = [root |-> RootHash(v, p), content |-> p]]

\* A label in use is refused for another root and kept as it is for the same.
Admit(v, p) ==
    \/ /\ archive[v] = Absent
       /\ archive' = [archive EXCEPT ![v] = [root |-> RootHash(v, p), content |-> p]]
    \/ /\ archive[v] # Absent
       /\ archive[v].root = RootHash(v, p)
       /\ UNCHANGED archive

\* root_content hands out the archive's own dictionary: a caller that writes to
\* what it was given writes to the archive.
WriteThrough(v, p) ==
    /\ archive[v] # Absent
    /\ archive' = [archive EXCEPT ![v].content = p]

\* "one policy_version resolves to exactly one root_hash": what verifies under a
\* label is exactly what was admitted under it.
OneRootPerVersion ==
    \A v \in Versions, p \in Policies : \A s \in Sections(p) :
        Verifies(MakeBinding(v, p, s)) <=>
            archive[v] # Absent /\ archive[v].root = RootHash(v, p)
=============================================================================
