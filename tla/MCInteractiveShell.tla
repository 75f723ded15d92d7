-------------------------- MODULE MCInteractiveShell --------------------------
(* Three chunks of input, so that one waits in dataCh and one in the reader. The row
   has room for the prompt and three bytes; a line may hold five. *)
EXTENDS InteractiveShell, TLC

MCText == {"$", "a", "b", " ", "x1", "x2", "[", "O", "A", "B", "C", "D", "F", "H", "1", "3", "4", "~"}
MCFinals == {"[", "O", "a", "b", "A", "B", "C", "D", "F", "H", "~"}
MCPrompt == <<"$">>
MCNames == {<<"b", "1">>, <<"b", "3">>, <<"a", "b", "1">>}
MCFarewells == {<<"4">>}
MCForget == <<"F">>
MCUnended == {<<"a", "b">>}

MCChunks == {
  <<"a", "b", "enter">>,
  <<"a">>,
  <<"b", "tab">>,
  <<"a", "tab", "backspace">>,
  <<"esc", "[", "A">>,
  <<"esc", "O", "A", "esc", "[", "B", "esc", "[">>,
  <<"a", "b", "1", "backspace", "a", "backspace">>,
  <<"esc", "[", "D", "a", "backspace">>,
  <<"esc", "[", "H", "esc", "[", "3", "~", "esc", "[", "C">>,
  <<"x1", "x2", "esc", "[", "D", "backspace">>,
  <<"F", "enter", "esc", "[", "B">>,
  <<"^C", "esc", "[", "A", "esc", "[", "A", "enter">>,
  <<"esc", "[", "1", "1", "1", "1", "esc", "[", "4", "~">>,
  <<"4", "enter", "a">>,
  <<"^D">> }
=============================================================================
