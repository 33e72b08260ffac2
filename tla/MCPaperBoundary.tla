--------------------------- MODULE MCPaperBoundary ---------------------------
(* A market of two sessions, the first from 1 to 4.                        *)
EXTENDS PaperBoundary

MCOpenings == <<1, 7>>
MCClosings == <<4, 9>>
MCSymbols == <<"SPY", "QQQ", "IWM">>

=============================================================================
