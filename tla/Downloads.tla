----------------------------- MODULE Downloads -----------------------------
(***************************************************************************)
(* What the receiving side promises about the download folder: it only     *)
(* ever gains files.  A transfer adds at most one file per ChunkWriter,    *)
(* whole, under a name that was free; no file is replaced, renamed,        *)
(* truncated or written to once it is there.                               *)
(***************************************************************************)
CONSTANTS
  Writers,  \* writers that may deliver
  Name,     \* names in the download folder
  Whole     \* Whole[w]: the content writer w has to deliver

VARIABLES
  folder,   \* the files in the folder: a function from names to contents
  done      \* writers that have delivered

dvars == <<folder, done>>

\* Whatever the user keeps in the folder.
DInit == DOMAIN folder \subseteq Name /\ done = {}

Deliver(w, n) ==
  /\ w \notin done
  /\ n \notin DOMAIN folder
  /\ folder' = [m \in DOMAIN folder \cup {n} |-> IF m = n THEN Whole[w] ELSE folder[m]]
  /\ done' = done \cup {w}

DNext == \E w \in Writers, n \in Name : Deliver(w, n)

DSpec == DInit /\ [][DNext]_dvars
===========================================================================
