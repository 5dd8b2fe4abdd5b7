----------------------------- MODULE ParityReport -----------------------------
(***************************************************************************)
(* The two trade volumes of the ParityChecker's report: feedTradeVolume    *)
(* adds up what the messages say was executed, engineTradeVolume is the    *)
(* adapter's own count.                                                    *)
(***************************************************************************)
EXTENDS ParityChecker

CONSTANT MaxVolume  \* bound on feedTradeVolume

VARIABLE feedTradeVolume  \* report_.feedTradeVolume

ReportInit == ParityInit /\ feedTradeVolume = 0

ReportNext ==
    \/ \E shares \in 1..MaxShares :
          /\ feedTradeVolume + shares <= MaxVolume
          /\ Executes(shares)
          /\ feedTradeVolume' = feedTradeVolume + shares
    \/ (OtherMessage \/ ProcessStep) /\ UNCHANGED feedTradeVolume

ReportSpec == ReportInit /\ [][ReportNext]_<<parityVars, feedTradeVolume>>

-----------------------------------------------------------------------------
\* "feed vs. engine trade volume", which test TradeVolumeMatches compares: the two
\* volumes of the report are the same after every message.
ReportedVolumesMatch == pc = "idle" => feedTradeVolume = tradeVolume
=============================================================================
