-------------------------- MODULE MCConfiguration --------------------------
(* Both services, two edits, one replacement and two saved settings.         *)
EXTENDS Configuration

CONSTANTS web, router

MCServices == {web, router}

\* Settings and the file meet nowhere: settings are saved while the file is left
\* alone.
SavedApart == rows = 0 \/ edits + replaces = 0

=============================================================================
