------------------------------ MODULE MCPatcher ------------------------------
(* Instances of QtBinPatcher for TLC.                                      *)
EXTENDS QtBinPatcher

(* Paths such as C:/Qt, C:/Qt/5.1, of which the one is part of the other,  *)
(* and C:/Program Files/Qt.                                                *)
CONSTANTS Qt, Qt5, Program
MCContains == {<<Qt5, Qt>>}
=============================================================================
