----------------------------- MODULE FileStore -----------------------------
(***************************************************************************)
(* What the filesystem of a pi promises of its root directory: files are    *)
(* only ever added, each at once and complete, after those that are there,  *)
(* and on clusters that belong to no other file.                            *)
(***************************************************************************)
EXTENDS Naturals, Sequences

CONSTANTS Names, Clusters

VARIABLE files \* the files: place in the directory, name and chain of clusters

ChainOf(file) == {file.chain[i] : i \in DOMAIN file.chain}

NoRepeat(chain) == \A i, j \in DOMAIN chain : i # j => chain[i] # chain[j]

Init ==
    /\ \A file \in files : ChainOf(file) \subseteq Clusters /\ NoRepeat(file.chain)
    /\ \A f, g \in files :
          f # g => f.place # g.place /\ ChainOf(f) \cap ChainOf(g) = {}

Add(file) ==
    /\ file.name \in Names
    /\ ChainOf(file) \subseteq Clusters
    /\ NoRepeat(file.chain)
    /\ \A other \in files :
          other.place < file.place /\ ChainOf(other) \cap ChainOf(file) = {}
    /\ files' = files \cup {file}

\* The file added is the one of the new state that the old one has not.
Next == \E file \in files' \ files : Add(file)

Spec == Init /\ [][Next]_files
=============================================================================
