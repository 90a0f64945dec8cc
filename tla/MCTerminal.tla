------------------------------- MODULE MCTerminal -------------------------------
(* Three words of two bytes, the last of which does not answer.             *)
EXTENDS Terminal

At(address) == <<"@", address>>
Bytes(b) == <<"bytes", b>>
MCFiles == {
  NotSv,
  <<Bytes(<<1, 2>>)>>,                                        \* no address
  <<At(0), Bytes(<<1, 200>>), At(2), Bytes(<<5, 6>>)>>,       \* two sections
  <<At(2), Bytes(<<1>>)>>,                                    \* half a word
  <<At(0), Bytes(<<7, 8, 3, 4>>), At(4)>>}                  \* no data behind the last address
===============================================================================
