---------------------------- MODULE MCLanguageSync ----------------------------
(***************************************************************************)
(* LanguageSync for TLC: a laptop with the server's clock, and a phone     *)
(* whose clock runs ahead by more than the server believes at once, and by *)
(* less than it believes once time has passed.                             *)
(***************************************************************************)
EXTENDS LanguageSync

CONSTANTS laptop, phone, en

FastPhone == [b \in Browsers |-> IF b = phone THEN 5 ELSE 0]

\* Nothing tells the editions apart: let the first choice be en.
FirstIsEn == made = {} => \A c \in made' : c.lang = en

=============================================================================
