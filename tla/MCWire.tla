-------------------------------- MODULE MCWire --------------------------------
(* An instance of Wire for TLC: two threads, messages around every limit.   *)
EXTENDS Wire

(* With BufSize 7, MaxParams 2 and MaxParamLen 4: a command alone; two       *)
(* fields that fill the buffer exactly; one byte and several bytes too many; *)
(* an empty field; too many fields; a field too long; nothing but a CR.      *)
AtLimits ==
  {<< <<"a">> >>,
   << <<"a", "b">>, <<"a", "b">> >>,
   << <<"a", "b">>, <<"a", "b", "a">> >>,
   << <<"a", "b">>, <<"a", "b">>, <<"b", "b">> >>,
   << <<"a">>, <<>>, <<"b">> >>,
   << <<"a">>, <<"b">>, <<"a">> >>,
   << <<"a", "b", "a", "b", "a">> >>,
   << <<"\r">> >>}

===============================================================================
