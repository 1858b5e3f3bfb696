---------------------------- MODULE MCClipboard -----------------------------
(* Instances of Clipboard for TLC.                                         *)
EXTENDS Clipboard

(* A source is selected with all its types, or before it has any.          *)
AllTypes == {Mime}
TypesLaterOrAll == {{}, Mime}
=============================================================================
