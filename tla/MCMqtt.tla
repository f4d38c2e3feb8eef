------------------------------- MODULE MCMqtt -------------------------------
EXTENDS Mqtt

Set(key, value) == <<"SET", Space, key, Space>> \o value

(* Settings of one and of two digits, one of another key with a terminator, *)
(* one that is cut short and one of no length.                              *)
SomeMessages ==
  {Set("running_time", <<"3">>), Set("running_time", <<"5", "0">>),
   Set("other", <<"7", NUL>>), <<"SET", Space, "running_time">>, <<>>}

(* Nothing but whole messages like the example of util.c:78.                *)
WholeMessages ==
  {Set("running_time", <<"3">>), Set("running_time", <<"5", "0">>)}
=============================================================================
