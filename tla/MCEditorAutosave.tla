-------------------------- MODULE MCEditorAutosave --------------------------
(***************************************************************************)
(* EditorAutosave with a title and rows.                                   *)
(***************************************************************************)
EXTENDS EditorAutosave

TitleAndRows == {"title", "rows"}
RowsField    == "rows"
=============================================================================
