----------------------------- MODULE MCIniConfig -----------------------------
(***************************************************************************)
(* Names, values and files for IniConfig.  The second key begins like the  *)
(* first, as tvin.userpet.reset does like tvin.userpet.                    *)
(***************************************************************************)
EXTENDS IniConfig

Chars == {"#", "[", "]", "=", " ", "T", "H", "u", "r", "s", "0", "1"}
SectionNames == {<<"T">>, <<"H">>}
KeyNames     == {<<"u">>, <<"u", "r">>, <<"s">>}
SomeValues   == {<<"0">>, <<"1", "1">>, <<"#">>}

\* No file; a file with a comment and two sections; one with a key line before
\* the first section and a key that is there twice.
SomeFiles ==
    { <<>>,
      << <<"#">>, <<"[", "H", "]">>, <<"u", "r", " ", "=", "0">>, <<"[", "T", "]">> >>,
      << <<"u", "=", "0">>, <<"[", "H", "]">>, <<"s", "=", "0">>, <<"s", "=", "1">> >> }
=============================================================================
