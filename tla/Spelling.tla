------------------------------ MODULE Spelling ------------------------------
(***************************************************************************)
(* The file manager with the names of its files spelled out: at the steps  *)
(* of Files where a name is given, sent or read, what the functions of     *)
(* Names do to it, whatever its characters.                                *)
(***************************************************************************)
EXTENDS Files, Names

\* When a command changes the files of the host, it is the command meant, on the path
\* meant, whatever characters the path has - as the user, and under sudo, where a second
\* shell reads it.
CommandsReachFiles == [][ fs' # fs => MovesRead /\ WritesRead ]_vars

\* When names are put together: the directory above is the one come from, however the home
\* directory was written; a path ends with the name it was made of; and "Keep both" finds a
\* free name that is still of its kind - hidden if it was, with its extension - also beside
\* names it had made itself.
NamesCompose == [][ path' # path \/ op' # op => PathsCompose /\ FreeNamesFit ]_vars

\* When a listing is shown it has the names of the directory, tabs and all.  A newline in a
\* name is not provided for: the listing is given up as a whole, or the name ends before
\* it - but no name is made of another's remains (while it has fewer than six tabs).
ListingsAreExact == [][ entries' # entries => PlainNamesListed /\ NewlinesGiveUp ]_vars
=============================================================================
