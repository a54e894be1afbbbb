---------------------------- MODULE MCTransfer ----------------------------
(***************************************************************************)
(* Small instances of Transfer for TLC.  Sizes are in bytes with a chunk   *)
(* of 2: a file of 3 bytes has a full and a short chunk, one of 2 bytes a  *)
(* single full chunk, and an empty file its one empty chunk.               *)
(***************************************************************************)
EXTENDS TransferProgress, TLC

CONSTANTS t1, t2, t3, a, b, id1, id2, id3, pa, pb, blank

\* A transfer of two files and a retry of the same two files.
RetryFiles == (t1 :> <<a, b>>) @@ (t2 :> <<a, b>>)
RetrySizes == (a :> 3) @@ (b :> 0)
FreshIds == (t1 :> id1) @@ (t2 :> id2)
SameId == (t1 :> id1) @@ (t2 :> id1)
OwnPaths == (a :> pa) @@ (b :> pb)

\* Two files with content.
ApartSizes == (a :> 3) @@ (b :> 2)

\* The same file sent once, and sent again.
OneFileTwice == (t1 :> <<a>>) @@ (t2 :> <<a>>)
OneFileThrice == (t1 :> <<a>>) @@ (t2 :> <<a>>) @@ (t3 :> <<a>>)
ThriceSizes == (a :> 1) @@ (b :> 0)
ThreeIds == (t1 :> id1) @@ (t2 :> id2) @@ (t3 :> id3)

\* One transfer of one or two files.
OneFile == (t1 :> <<a>>)
FairSizes == (a :> 3) @@ (b :> 0)
TwoFiles == (t1 :> <<a, b>>)
OneId == (t1 :> id1)

\* photo.jpg and photo.png: with_extension gives both the same partial file.
SharedPath == (a :> pa) @@ (b :> pa)
===========================================================================
