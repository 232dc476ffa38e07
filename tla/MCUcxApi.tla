------------------------------ MODULE MCUcxApi ------------------------------
EXTENDS UcxApi

CONSTANTS app1, app2

Symmetry == Permutations({app1, app2})

\* Functions that break one of the properties by themselves.
LeavesCommand == {"uCxWifiStationGetIpConfig", "uCxWifiApGetSecurity"}
LosesSyntax == {"uCxWifiStationGetSecurityBegin", "uCxMqttGetTLSBegin"}
HandsOutTooLate == {"uCxBluetoothGetAdvertiseInformation",
                    "uCxWifiGetChannelList", "uCxWifiGetActiveChannels"}
TakesEcho == {f \in DOMAIN Api : Api[f].takesEcho}

AllFunctions == DOMAIN Api
SoundFunctions == DOMAIN Api \ (LeavesCommand \cup LosesSyntax
                                  \cup HandsOutTooLate \cup TakesEcho)

\* The functions that break a rule of the commands or of the receive buffer are
\* not made as they should be; all the others are.
ASSUME WellFormedFunctions ==
    {f \in AllFunctions : ~WellFormed(Api[f])} = LeavesCommand \cup HandsOutTooLate

\* And the functions that cannot tell what has become of their command are those that
\* leave it, that lose what they have found out, and that take the echo for a response.
ASSUME TellingFunctions ==
    {f \in AllFunctions : ~TellsOutcome(Api[f])} = LeavesCommand \cup LosesSyntax \cup TakesEcho
=============================================================================
