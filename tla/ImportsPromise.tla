---------------------------- MODULE ImportsPromise ----------------------------
(***************************************************************************)
(* What the import scripts leave behind, and what is promised of it: the   *)
(* rows of venues, the files of their photographs and the progress file.   *)
(***************************************************************************)
EXTENDS Integers

VARIABLES venues,    \* the rows, by slug, soft-deleted ones included
          disk,      \* the uploads whose files are on the volume
          progress,  \* the progress file of piso-import; "again" stands for failed,
                     \* skipped-no-img, skipped-too-few-img and no entry: a re-run tries them all
          reset      \* history: the venues were dropped

Stock == 0           \* images[] holds pictures of images.unsplash.com alone, or nothing

Has(s) == s \in DOMAIN venues
Shown(s) == Has(s) /\ ~venues[s].deleted

\* A venue that is shown has the files of its photographs, wherever an import
\* or an audit is, has failed or was killed.
FilesKept == \A s \in DOMAIN venues :
                Shown(s) /\ venues[s].images # Stock => venues[s].images \in disk

\* What the progress file calls saved, and a re-run leaves out for good, is in
\* the table, unless the table was emptied meanwhile.
SavedIsThere == ~reset => \A s \in DOMAIN progress : progress[s] = "saved" => Has(s)

\* The comment on Venue.deletedAt: the images of a venue are preserved on soft
\* delete so that it can be restored; only what an editor removes is unlinked.
RestorableFiles == \A s \in DOMAIN venues :
                      venues[s].images # Stock => venues[s].images \in disk
=============================================================================
