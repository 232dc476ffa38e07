---------------------------- MODULE UcxFunctions ----------------------------
(***************************************************************************)
(* The functions of the ucx API (src/ucx_api/generated), each as the       *)
(* sequence of calls that it makes into the AT client:                     *)
(*   "begin"   uCxAtClientCmdBeginF()                                      *)
(*   "params"  uCxAtClientCmdGetRspParamsF()                               *)
(*   "line"    uCxAtClientCmdGetRspParamLine()                             *)
(*   "syntax"  the choice between several forms of a response, by the      *)
(*             value of its first or second parameter                      *)
(*   "end"     uCxAtClientCmdEnd()                                         *)
(* The text of the commands and their parameters are abstracted. Of a      *)
(* response the format string matters, that is which of the results point  *)
(* into the receive buffer of the client. A table stands for the functions *)
(* of a stretch of its file, of which there is one per group of commands.  *)
(***************************************************************************)
EXTENDS Sequences, TLC

\* Formats with a string ("s", "$"), a byte array ("h") or a list ("l"), which
\* uCxAtUtilParseParamsVaList() returns as pointers into the line it parses.
TextFormats == {"--h", "-ddh", "-dh", "-dhdh", "-s", "-sdss", "-ssdd",
                "bdsdh", "dd$", "ddl", "ddsss", "ds", "dsid", "h", "l",
                "msddddd", "s", "sd", "ss"}

\* leaves says what the caller has to end with uCxEnd(), by the header of the
\* function: "no" command, one that is "open", one whose responses are a "list", or
\* the "same" as before. rsp is the format of the response, and takesEcho tells
\* whether the function takes the echo of its own command for the response: it
\* expects no prefix, and its command does not begin with the "AT+" that
\* parseLine() leaves out.
Function(ops, returns, leaves, rsp, takesEcho) ==
    [ops |-> ops, returns |-> returns, leaves |-> leaves,
     text |-> rsp \in TextFormats, takesEcho |-> takesEcho, selector |-> "none"]

Table(names, function) == [f \in names |-> function]

Exec(names) ==
    Table(names, Function(<<"begin", "end">>, "int", "no", "none", FALSE))
Get(rsp, names) ==
    Table(names, Function(<<"begin", "params", "end">>, "int", "no", rsp, FALSE))
GetPlain(rsp, names) ==
    Table(names, Function(<<"begin", "params", "end">>, "int", "no", rsp, TRUE))

\* The command is left open for the caller, who ends it with uCxEnd().
GetBegin(rsp, names) ==
    Table(names, Function(<<"begin", "params">>, "bool", "open", rsp, FALSE))
GetBeginPlain(rsp, names) ==
    Table(names, Function(<<"begin", "params">>, "bool", "open", rsp, TRUE))
ListBegin(names) ==
    Table(names, Function(<<"begin">>, "void", "list", "none", FALSE))
GetNext(rsp, names) ==
    Table(names, Function(<<"params">>, "bool", "same", rsp, FALSE))

\* It returns the number of bytes read or an error, as functions do that end their
\* command, and leaves the command open.
ReadBegin(rsp, names) ==
    Table(names, Function(<<"begin", "params">>, "int", "open", rsp, FALSE))

\* The response is read as a line, and parsed first with the format selector.
\* The forms that SyntaxBegin() chooses from have strings, the others have not.
SyntaxBegin(selector, names) ==
    Table(names, [Function(<<"begin", "line", "syntax">>, "bool", "open", "s",
                           FALSE) EXCEPT !.selector = selector])
SyntaxGet(selector, names) ==
    Table(names, [Function(<<"begin", "line", "syntax", "end">>, "int", "no", "d",
                           FALSE) EXCEPT !.selector = selector])

\* uCxEnd()
End == Function(<<"end">>, "int", "no", "none", FALSE)

-----------------------------------------------------------------------------
Bluetooth1 ==
       Exec({"uCxBluetoothSetMode", "uCxBluetoothConnect",
        "uCxBluetoothDisconnect", "uCxBluetoothSetLocalName",
        "uCxBluetoothBgDiscoveryDefaultStart",
        "uCxBluetoothBgDiscoveryStart1", "uCxBluetoothBgDiscoveryStart2",
        "uCxBluetoothBgDiscoveryStart3", "uCxBluetoothBgDiscoveryStop"})
    @@ Get("d", {"uCxBluetoothGetMode", "uCxBluetoothGetRssi"})
    @@ GetBegin("s", {"uCxBluetoothGetLocalNameBegin"})
    @@ ListBegin({"uCxBluetoothDiscoveryDefaultBegin",
        "uCxBluetoothDiscovery1Begin", "uCxBluetoothDiscovery2Begin",
        "uCxBluetoothDiscovery3Begin"})
    @@ GetNext("bdsdh", {"uCxBluetoothDiscoveryDefaultGetNext",
        "uCxBluetoothDiscovery1GetNext", "uCxBluetoothDiscovery2GetNext",
        "uCxBluetoothDiscovery3GetNext"})

Bluetooth2 ==
       ListBegin({"uCxBluetoothListConnectionsBegin",
        "uCxBluetoothListConnectionStatusBegin"})
    @@ GetNext("db", {"uCxBluetoothListConnectionsGetNext"})
    @@ GetNext("dd", {"uCxBluetoothListConnectionStatusGetNext"})
    @@ Get("-d", {"uCxBluetoothGetConnectionStatus"})
    @@ Get("ddl", {"uCxBluetoothGetAdvertiseInformation"})
    @@ Exec({"uCxBluetoothSetLegacyAdvertiseData",
        "uCxBluetoothClearLegacyAdvertiseData",
        "uCxBluetoothSetScanResponseData",
        "uCxBluetoothClearScanResponseData",
        "uCxBluetoothLegacyAdvertisementStart",
        "uCxBluetoothLegacyAdvertisementStop",
        "uCxBluetoothDirectedAdvertisementStart1",
        "uCxBluetoothDirectedAdvertisementStart2",
        "uCxBluetoothDirectedAdvertisementStop",
        "uCxBluetoothSetConnectionIntervalMin"})
    @@ GetBegin("h", {"uCxBluetoothGetLegacyAdvertiseDataBegin",
        "uCxBluetoothGetScanResponseDataBegin"})

Bluetooth3 ==
       Get("d", {"uCxBluetoothGetConnectionIntervalMin",
        "uCxBluetoothGetConnectionIntervalMax",
        "uCxBluetoothGetConnectionPeripheralLatency",
        "uCxBluetoothGetConnectionLinklossTimeout",
        "uCxBluetoothGetPreferredTxPhy", "uCxBluetoothGetPreferredRxPhy"})
    @@ Exec({"uCxBluetoothSetConnectionIntervalMax",
        "uCxBluetoothSetConnectionPeripheralLatency",
        "uCxBluetoothSetConnectionLinklossTimeout",
        "uCxBluetoothSetPreferredTxPhy", "uCxBluetoothSetPreferredRxPhy",
        "uCxBluetoothSetLegacyAdvertisementConfig"})
    @@ Get("dd", {"uCxBluetoothGetLegacyAdvertisementConfig"})

Bluetooth4 ==
       Exec({"uCxBluetoothSetScanInterval", "uCxBluetoothSetScanWindow",
        "uCxBluetoothSetConnectToDirectedAdv",
        "uCxBluetoothSetIoCapabilities", "uCxBluetoothSetSecurityMode",
        "uCxBluetoothSetPairingMode", "uCxBluetoothUserConfirmation",
        "uCxBluetoothUserPasskeyEntry2", "uCxBluetoothUserPasskeyEntry3"})
    @@ Get("d", {"uCxBluetoothGetScanInterval", "uCxBluetoothGetScanWindow",
        "uCxBluetoothGetConnectToDirectedAdv",
        "uCxBluetoothGetIoCapabilities", "uCxBluetoothGetSecurityMode",
        "uCxBluetoothGetPairingMode"})

Bluetooth5 ==
       Exec({"uCxBluetoothBond", "uCxBluetoothUnbond",
        "uCxBluetoothUnbondAll", "uCxBluetoothSetDeviceInfoServiceChar",
        "uCxBluetoothRequestPhy"})
    @@ ListBegin({"uCxBluetoothListBondedDevicesBegin",
        "uCxBluetoothListDeviceInfoServiceCharsBegin"})
    @@ GetNext("b", {"uCxBluetoothListBondedDevicesGetNext"})
    @@ GetBegin("-s", {"uCxBluetoothGetDeviceInfoServiceCharBegin"})
    @@ GetNext("ds", {"uCxBluetoothListDeviceInfoServiceCharsGetNext"})
    @@ Get("-dd", {"uCxBluetoothGetPhy"})

Wifi1 ==
       Exec({"uCxWifiSetHostname", "uCxWifiStationSetSecurityEnterprise5",
        "uCxWifiStationSetSecurityEnterprise6",
        "uCxWifiStationSetSecurityPeap4", "uCxWifiStationSetSecurityPeap5",
        "uCxWifiStationSetSecurityWpa", "uCxWifiStationSetSecurityOpen",
        "uCxWifiStationSetConnectionParams",
        "uCxWifiStationSetIpConfigStatic4",
        "uCxWifiStationSetIpConfigStatic5",
        "uCxWifiStationSetIpConfigStatic6", "uCxWifiStationSetIpConfigDhcp"})
    @@ GetBegin("s", {"uCxWifiGetHostnameBegin"})
    @@ SyntaxBegin("-d", {"uCxWifiStationGetSecurityBegin"})
    @@ GetBegin("-s", {"uCxWifiStationGetConnectionParamsBegin"})

Wifi2 ==
       SyntaxGet("-d", {"uCxWifiStationGetIpConfig"})
    @@ Exec({"uCxWifiStationConnect", "uCxWifiStationDisconnect",
        "uCxWifiSetRegulatoryDomain", "uCxWifiSetChannelList"})
    @@ Get("-i", {"uCxWifiStationGetNetworkStatus"})
    @@ ListBegin({"uCxWifiStationListNetworkStatusBegin",
        "uCxWifiStationScanDefaultBegin"})
    @@ GetNext("di", {"uCxWifiStationListNetworkStatusGetNext"})
    @@ Get("d", {"uCxWifiGetRegulatoryDomain"})
    @@ Get("l", {"uCxWifiGetChannelList", "uCxWifiGetActiveChannels"})

Wifi3 ==
       GetNext("msddddd", {"uCxWifiStationScanDefaultGetNext",
        "uCxWifiStationScan1GetNext", "uCxWifiStationScan2GetNext"})
    @@ ListBegin({"uCxWifiStationScan1Begin", "uCxWifiStationScan2Begin"})
    @@ SyntaxBegin("d", {"uCxWifiStationStatusBegin"})
    @@ Exec({"uCxWifiApActivate", "uCxWifiApDeactivate",
        "uCxWifiApSetConnectionParams1", "uCxWifiApSetConnectionParams2",
        "uCxWifiApSetSecurityWpa1", "uCxWifiApSetSecurityWpa2",
        "uCxWifiApSetSecurityOpen"})
    @@ GetBegin("sd", {"uCxWifiApGetConnectionParamsBegin"})

Wifi4 ==
       SyntaxGet("d", {"uCxWifiApGetSecurity"})
    @@ ListBegin({"uCxWifiApListStationsBegin",
        "uCxWifiApListNetworkStatusBegin"})
    @@ GetNext("m", {"uCxWifiApListStationsGetNext"})
    @@ Get("-i", {"uCxWifiApGetNetworkStatus"})
    @@ GetNext("di", {"uCxWifiApListNetworkStatusGetNext"})
    @@ Exec({"uCxWifiSetWifiRoaming",
        "uCxWifiStationSetRoamingBGScanThreshold",
        "uCxWifiStationSetRoamingSwitchLimit"})
    @@ Get("d", {"uCxWifiGetWifiRoaming",
        "uCxWifiStationGetRoamingBGScanThreshold",
        "uCxWifiStationGetRoamingSwitchLimit"})

Wifi5 ==
       Exec({"uCxWifiStationSetRoamingScanInterval",
        "uCxWifiStationSetAggressiveRoaming",
        "uCxWifiStationSetRoamingDelayMs",
        "uCxWifiStationSetRoamingAllChannels"})
    @@ Get("d", {"uCxWifiStationGetRoamingScanInterval",
        "uCxWifiStationGetAggressiveRoaming",
        "uCxWifiStationGetRoamingDelayMs",
        "uCxWifiStationGetRoamingAllChannels"})

System1 ==
       Exec({"uCxSystemReboot", "uCxSystemStartSerialFirmwareUpdate1",
        "uCxSystemStartSerialFirmwareUpdate2",
        "uCxSystemStartSerialFirmwareUpdateDefault",
        "uCxSystemStartBootLoader1", "uCxSystemStartBootLoader2",
        "uCxSystemStartBootLoaderDefault", "uCxSystemStoreConfiguration",
        "uCxSystemSetLocalAddress", "uCxSystemFactoryReset",
        "uCxSystemDefaultSettings", "uCxSystemSetUartSettings1",
        "uCxSystemSetUartSettings2", "uCxSystemSetUartSettings3",
        "uCxSystemSetExtendedError"})
    @@ Get("m", {"uCxSystemGetLocalAddress"})
    @@ Get("dd", {"uCxSystemGetUartSettings"})
    @@ Get("d", {"uCxSystemGetLastErrorCode"})

System2 ==
       Get("d", {"uCxSystemGetExtendedError"})
    @@ Exec({"uCxSystemSetUnixTime", "uCxSystemSetEchoOff",
        "uCxSystemSetEchoOn", "uCxSystemSetEscSequenceChar",
        "uCxSystemSetLineTermChar", "uCxSystemSetRspFormatChar",
        "uCxSystemSetBackspaceChar"})
    @@ GetBegin("h", {"uCxSystemGetUnixTimeBegin"})
    @@ GetPlain("d", {"uCxSystemGetEcho", "uCxSystemGetEscSequenceChar",
        "uCxSystemGetLineTermChar", "uCxSystemGetRspFormatChar",
        "uCxSystemGetBackspaceChar"})

System3 ==
       Exec({"uCxSystemSetEscSequenceSettings"})
    @@ Get("ddd", {"uCxSystemGetEscSequenceSettings"})

Socket1 ==
       Get("d", {"uCxSocketCreate1", "uCxSocketCreate2",
        "uCxSocketGetReadMode", "uCxSocketGetLastError"})
    @@ Exec({"uCxSocketSetTLS2", "uCxSocketSetTLS3", "uCxSocketSetTLS5",
        "uCxSocketConnect", "uCxSocketSetReadMode", "uCxSocketClose"})
    @@ GetBegin("ddsss", {"uCxSocketGetTLSBegin"})
    @@ Get("-d", {"uCxSocketWrite"})
    @@ Get("-", {"uCxSocketRead"})

Socket2 ==
       Exec({"uCxSocketBind", "uCxSocketListen1", "uCxSocketListen2",
        "uCxSocketSetOption"})
    @@ Get("-id", {"uCxSocketReceiveFrom", "uCxSocketGetPeerAddress"})
    @@ ListBegin({"uCxSocketListStatusBegin"})
    @@ GetNext("ddd", {"uCxSocketListStatusGetNext"})
    @@ Get("-dd", {"uCxSocketGetStatus"})
    @@ Get("--d", {"uCxSocketGetOption"})
    @@ Get("i", {"uCxSocketGetHostByName"})

Http1 ==
       Exec({"uCxHttpSetConnectionParams2", "uCxHttpSetConnectionParams3",
        "uCxHttpSetTLS2", "uCxHttpSetTLS3", "uCxHttpSetTLS5",
        "uCxHttpDisconnect", "uCxHttpAddHeaderField",
        "uCxHttpSetCustomHeader", "uCxHttpClearHeaderCustom",
        "uCxHttpSetRequestPath", "uCxHttpGetRequest", "uCxHttpDeleteRequest1",
        "uCxHttpDeleteRequest2"})
    @@ GetBegin("ddsss", {"uCxHttpGetTLSBegin"})
    @@ GetBegin("dd$", {"uCxHttpGetHeader1Begin", "uCxHttpGetHeader2Begin"})
    @@ Get("-d", {"uCxHttpGetBody"})
    @@ GetBegin("ds", {"uCxHttpGetRequestPathBegin",
        "uCxHttpGetGetRequestHeaderBegin"})

Http2 ==
       GetBegin("ds", {"uCxHttpGetDeleteRequestHeaderBegin",
        "uCxHttpGetPostRequestHeaderBegin",
        "uCxHttpGetPutRequestHeaderBegin"})
    @@ Get("-d", {"uCxHttpPostRequest", "uCxHttpPutRequest"})

Mqtt1 ==
       Exec({"uCxMqttSetConnectionParams3", "uCxMqttSetConnectionParams4",
        "uCxMqttSetConnectionParams5", "uCxMqttSetConnectionParams6",
        "uCxMqttConnect", "uCxMqttSetKeepAlive",
        "uCxMqttSetLastWillAndTestament3", "uCxMqttSetLastWillAndTestament4",
        "uCxMqttSetLastWillAndTestament5", "uCxMqttSetTLS2", "uCxMqttSetTLS3",
        "uCxMqttSetTLS5", "uCxMqttDisconnect"})
    @@ GetBegin("-sdss", {"uCxMqttGetConnectionParamsBegin"})
    @@ Get("-d", {"uCxMqttGetKeepAlive"})
    @@ GetBegin("-ssdd", {"uCxMqttGetLastWillAndTestamentBegin"})
    @@ SyntaxBegin("-d", {"uCxMqttGetTLSBegin"})

Mqtt2 ==
       Get("-d", {"uCxMqttPublish"})
    @@ Exec({"uCxMqttSubscribe3", "uCxMqttSubscribe4"})
    @@ ReadBegin("-s", {"uCxMqttReadBegin"})

Security1 ==
       Exec({"uCxSecurityCertificateRemove",
        "uCxSecurityCertificateRemoveAll", "uCxSecurityCertificateUpload",
        "uCxSecurityCertificateUploadPW",
        "uCxSecuritySetTlsServerNameIndication",
        "uCxSecuritySetTlsHandshakeFrag"})
    @@ ListBegin({"uCxSecurityListCertificatesBegin",
        "uCxSecurityListTlsExtensionsBegin"})
    @@ GetNext("ds", {"uCxSecurityListCertificatesGetNext"})
    @@ SyntaxBegin("d", {"uCxSecurityReadAllCertificatesDetailsBegin",
        "uCxSecurityReadCertificatesDetailsBegin"})
    @@ GetNext("dd", {"uCxSecurityListTlsExtensionsGetNext"})
    @@ Get("d", {"uCxSecurityGetTlsServerNameIndication"})

Security2 ==
       Get("d", {"uCxSecurityGetTlsHandshakeFrag"})

GattServer ==
       Get("d", {"uCxGattServerServiceDefine",
        "uCxGattServerDescriptorDefine4", "uCxGattServerDescriptorDefine5"})
    @@ Get("dd", {"uCxGattServerCharDefine5", "uCxGattServerCharDefine6",
        "uCxGattServerHostCharDefine"})
    @@ Exec({"uCxGattServerServiceActivate", "uCxGattServerReadReqResponse",
        "uCxGattServerSendNotification", "uCxGattServerSendIndication",
        "uCxGattServerSetAttrValue", "uCxGattServerReadReqError",
        "uCxGattServerWriteReqError", "uCxGattServerWriteReqResponse",
        "uCxGattServerSendServiceChangedInd"})

GattClient ==
       ListBegin({"uCxGattClientDiscoverPrimaryServicesBegin",
        "uCxGattClientDiscoverPrimaryServicesByUuidBegin",
        "uCxGattClientDiscoverServiceCharsBegin",
        "uCxGattClientDiscoverCharDescriptorsBegin"})
    @@ GetNext("-ddh", {"uCxGattClientDiscoverPrimaryServicesGetNext",
        "uCxGattClientDiscoverCharDescriptorsGetNext"})
    @@ GetNext("-dd", {"uCxGattClientDiscoverPrimaryServicesByUuidGetNext"})
    @@ GetNext("-dhdh", {"uCxGattClientDiscoverServiceCharsGetNext"})
    @@ GetBegin("--h", {"uCxGattClientReadBegin"})
    @@ GetBegin("-dh", {"uCxGattClientReadByUuidBegin"})
    @@ Exec({"uCxGattClientWrite", "uCxGattClientConfigWrite",
        "uCxGattClientWriteNoRsp", "uCxGattClientWriteLong"})

Sps ==
       Exec({"uCxSpsConnect1", "uCxSpsConnect2", "uCxSpsSetServiceEnable",
        "uCxSpsSetDataMode"})
    @@ Get("d", {"uCxSpsGetServiceEnable", "uCxSpsGetDataMode"})
    @@ Get("-d", {"uCxSpsWrite"})
    @@ Get("-", {"uCxSpsRead"})

General ==
       Exec({"uCxGeneralAttention", "uCxGeneralSetGreetingText1",
        "uCxGeneralSetGreetingText2"})
    @@ GetBegin("s", {"uCxGeneralGetManufacturerIdentificationBegin",
        "uCxGeneralGetDeviceModelIdentificationBegin",
        "uCxGeneralGetSoftwareVersionBegin",
        "uCxGeneralGetSerialNumberBegin"})
    @@ GetBeginPlain("ss", {"uCxGeneralGetIdentInfoBegin"})
    @@ GetBeginPlain("s", {"uCxGeneralGetTypeCodeBegin"})
    @@ GetBegin("ds", {"uCxGeneralGetGreetingTextBegin"})

Diagnostics ==
       Exec({"uCxDiagnosticsPing1", "uCxDiagnosticsPing2",
        "uCxDiagnosticsPingStop", "uCxDiagnosticsIperf2",
        "uCxDiagnosticsIperf5", "uCxDiagnosticsIperf7",
        "uCxDiagnosticsIperf8", "uCxDiagnosticsIperf9",
        "uCxDiagnosticsIperf10"})

Power ==
       Exec({"uCxPowerDeepSleepWithGpioWakeup", "uCxPowerDeepSleep",
        "uCxPowerSetPowerSaveLevel", "uCxPowerSetPowerSaveTimeout"})
    @@ Get("d", {"uCxPowerGetPowerSaveLevel"})

NetworkTime ==
       Exec({"uCxNetworkTimeSetClientEnabled", "uCxNetworkTimeSetNtpServer"})
    @@ Get("d", {"uCxNetworkTimeGetClientEnabled"})
    @@ GetBegin("dsid", {"uCxNetworkTimeGetNtpServerBegin"})

\* All functions that execute commands.
Api == Bluetooth1 @@ Bluetooth2 @@ Bluetooth3 @@ Bluetooth4 @@ Bluetooth5 @@
       Wifi1 @@ Wifi2 @@ Wifi3 @@ Wifi4 @@ Wifi5 @@ System1 @@ System2 @@
       System3 @@ Socket1 @@ Socket2 @@ Http1 @@ Http2 @@ Mqtt1 @@ Mqtt2 @@
       Security1 @@ Security2 @@ GattServer @@ GattClient @@ Sps @@
       General @@ Diagnostics @@ Power @@ NetworkTime
==============================================================================
