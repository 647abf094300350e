---------------------------- MODULE MCActionRun ----------------------------
\* Small instances of ActionRun.
EXTENDS ActionRun, TLC

\* The root of the repository, and a package of a monorepo.
Root == <<>>
Package == <<"pkg">>

\* A handler file of the package, and the file its verification may be in.
InPackage == {<<"pkg", "hook.ts">>}
AuthFile == <<"pkg", "auth.ts">>

\* Workflow runs are not told apart.
Symmetry == Permutations(Runs)
=============================================================================
