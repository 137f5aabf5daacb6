----------------------------- MODULE ModuleNames -----------------------------
(***************************************************************************)
(* The module name of a Python file (repo_indexer/package_roots.py).       *)
(*                                                                         *)
(* A path is the sequence of its parts below the repository, without the   *)
(* suffix .py.  A pyproject is [dir, package, src]: the directory it lies  *)
(* in, whether it declares a package rather than tools only, and the       *)
(* source directory below dir that its layout names, <<>> for none.        *)
(***************************************************************************)
EXTENDS Integers, SequencesExt

CONSTANT ExcludedDirs

(* detect_package_roots looks for excluded directories in the whole path,  *)
(* the part above the repository included.                                 *)
IsExcluded(repo_path, dir) == ToSet(repo_path \o dir) \cap ExcludedDirs # {}

DetectPackageRoots(repo_path, pyprojects) ==
    {[fs_root |-> p.dir, src_relative |-> p.src] :
        p \in {q \in pyprojects : q.package /\ ~IsExcluded(repo_path, q.dir)}}

RootPrefix(root) == root.fs_root \o root.src_relative

Matches(root, parts) ==
    Len(parts) > Len(RootPrefix(root)) /\ IsPrefix(RootPrefix(root), parts)

(* __init__.py stands for its package. *)
ModuleParts(path) == IF path # <<>> /\ Last(path) = "__init__" THEN Front(path) ELSE path

(* Mutant: the shallowest package that matches names the file. *)
OutermostRoot(roots, parts) ==
    {r \in roots : /\ Matches(r, parts)
                   /\ \A s \in roots : Matches(s, parts) => Len(r.fs_root) <= Len(s.fs_root)}

(* The roots are sorted by the depth of fs_root, the deepest first, and    *)
(* the first one that matches is taken.  A directory has one pyproject.    *)
MatchingRoot(roots, parts) ==
    {r \in roots : /\ Matches(r, parts)
                   /\ \A s \in roots : Matches(s, parts) => Len(s.fs_root) <= Len(r.fs_root)}

ModuleQn(roots, path) ==
    LET parts == ModuleParts(path)
        root  == MatchingRoot(roots, parts)
    IN  IF root = {} THEN parts
        ELSE LET r == CHOOSE r \in root : TRUE
             IN  SubSeq(parts, Len(RootPrefix(r)) + 1, Len(parts))

----------------------------------------------------------------------------
SamePackage(roots, path, other) ==
    MatchingRoot(roots, ModuleParts(path)) = MatchingRoot(roots, ModuleParts(other))

(* A file of a package is imported by the name it is given here: its path  *)
(* below the innermost package around it.  Two files get one name, and     *)
(* with it one set of nodes, only from different packages, or as x.py      *)
(* beside x/__init__.py (module_qn_for).                                   *)
NamesTellFilesApartFor(roots, paths) ==
    /\ \A path \in paths :
         LET parts  == ModuleParts(path)
             around == {r \in roots : Matches(r, parts)}
         IN  /\ IsSuffix(ModuleQn(roots, path), parts)
             /\ \A r \in around :
                  (\A s \in around : IsPrefix(s.fs_root, r.fs_root))
                    => RootPrefix(r) \o ModuleQn(roots, path) = parts
    /\ \A path, other \in paths :
         ModuleQn(roots, path) = ModuleQn(roots, other) =>
            \/ ModuleParts(path) = ModuleParts(other)
            \/ ~SamePackage(roots, path, other)
=============================================================================
