------------------------------- MODULE MCStartup -------------------------------
EXTENDS Startup
CONSTANTS usual, other, c1, c2
ColumnsIn == <<c1, c2>>
Complete == [bind |-> "public", hosts |-> "listed", auth |-> {"user", "pass"}, db |-> other]
TextsIn == {Complete, [Complete EXCEPT !.hosts = "empty", !.auth = {"user"}]}
EnvsIn == {Blank, [Blank EXCEPT !.hosts = "listed", !.auth = {"pass"}]}
=============================================================================
