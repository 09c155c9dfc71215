---------------------------- MODULE MCKeyRotation ----------------------------
(* KeyRotation on small sets, for TLC.                                        *)
EXTENDS KeyRotation, TLC

CONSTANTS c1, c2, k1, k2, k3, k4, k5, k6

Symmetry == Permutations(Caller)

AccessKeys == <<"access_key">>
RefreshKeys == <<"refresh_key">>
SessionKeys == <<"access_key", "refresh_key">>

\* The firsts of a month, counted from one of them: every sequence of lengths
\* three months in a row can have.
ThreeMonths == {{31, 59, 90},    \* January to March
                {31, 60, 91},    \* in leap years
                {28, 59, 89},    \* February to April
                {29, 60, 90},    \* in leap years
                {31, 61, 92},    \* March, May, August or October, and on
                {30, 61, 91},    \* April to June, September to November
                {30, 61, 92},    \* June to August, November to January
                {31, 62, 92},    \* July to September
                {31, 62, 90},    \* December to February
                {31, 62, 91}}    \* in leap years
OneMidnight == {{0}}

\* Just before, at and just after each midnight.
MonthOffsets == {-1, 0, 1}
=============================================================================
