--------------------------- MODULE MCWsHandlers ---------------------------
EXTENDS WsHandlers, TLC

CONSTANTS o1, o2, s1

TargetOne == s1 :> o1

\* All updates, and terminal ones only.
SomeFilters == {Updates, Orders \X Terminal}
=============================================================================
