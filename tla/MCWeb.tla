------------------------------- MODULE MCWeb -------------------------------
(* Two questions that look alike, such as two files to overwrite, and a last *)
(* page.                                                                     *)
EXTENDS Web

Questions == <<"promptynan", "promptynan", "msgbox">>
TwoTabs == {1, 2}
All == {"bogus", "bare", "silent", "reset", "accept"}
=============================================================================
