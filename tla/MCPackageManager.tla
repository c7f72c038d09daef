-------------------------- MODULE MCPackageManager --------------------------
(* Two operations over two packages that share an archive. *)
EXTENDS PackageManager, TLC
CONSTANTS p1, p2, a1
MCArchiveOf == p1 :> a1 @@ p2 :> a1
=============================================================================
