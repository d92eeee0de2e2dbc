----------------------------- MODULE MCConsole -----------------------------
(***************************************************************************)
(* The console with bytes of two bits, a boot ROM of two messages, one of  *)
(* which makes Y wrap and one of which ends behind a page boundary, and a  *)
(* screen of two by two.                                                   *)
(***************************************************************************)
EXTENDS Console

MCRom == <<"code", "jsr", "a", "b", "nl", "a", "null", "jsr", "b", "null", "kernel">>
MCStrings == {<<"a", "cr", "b">>, <<"a", "bs", "nl">>, <<"ff", "a">>}
=============================================================================
