--------------------------- MODULE MCDiskLruCache ---------------------------
(***************************************************************************)
(* Small instances of DiskLruCache, and what a comment of the source says  *)
(* and the code does not keep.                                             *)
(***************************************************************************)
EXTENDS DiskLruCache, TLC

Symmetric == Permutations(Keys) \cup Permutations(Edits)

\* A last call only where fileCount has drifted from the files there are.
LastCallDrifted == calls < MaxCalls \/ (isOpen /\ fileCount > Count(entries))

\* "Closes this cache. Stored values will remain on the filesystem." (line
\* 654): what readers get at a close() is what a restart finds.
StoredSurvivesClose == [][EndClose /\ busy.arg = "close" => Visible' = Visible]_vars
=============================================================================
