------------------------------- MODULE UcxUrcs ------------------------------
(***************************************************************************)
(* The events of the ucx API (src/ucx_api/generated): for each URC that    *)
(* uCxUrcParse() knows by its name, without the "+", the format of its     *)
(* parameters, and for each function that registers a callback the URC     *)
(* whose slot it sets. The parse function of a URC looks at, and calls,    *)
(* the slot with the URC's own name. A table stands for the functions of a *)
(* stretch of its file.                                                    *)
(***************************************************************************)
EXTENDS TLC

Urcs1 ==
    [STARTUP |-> "", UEBTC |-> "db", UEBTDC |-> "d", UEBTB |-> "bd",
     UEBTUC |-> "bd", UEBTUPD |-> "bd", UEBTUPE |-> "b", UEBTPHYU |-> "dddd",
     UEBTBGD |-> "bdsdh", UEBTGCN |-> "ddh", UEBTGCI |-> "ddh",
     UEBTGCW |-> "ddhd"]

Urcs2 ==
    [UEBTGRR |-> "dd", UEBTGIC |-> "dd", UESPSC |-> "d", UESPSDC |-> "d",
     UESPSDS |-> "d$", UESPSDB |-> "d", UESPSDA |-> "dd", UEWLU |-> "dmd",
     UEWLD |-> "dd", UEWSNU |-> "", UEWSND |-> "", UEWSRSI |-> "",
     UEWSRSF |-> ""]

Urcs3 ==
    [UEWSRSC |-> "dmd", UEWAPNU |-> "", UEWAPND |-> "", UEWAPU |-> "",
     UEWAPD |-> "", UEWAPSA |-> "m", UEWAPSDA |-> "m", UESOC |-> "d",
     UESODA |-> "dd", UESODS |-> "d$", UESODSF |-> "did$", UESODB |-> "d",
     UESODBF |-> "did"]

Urcs4 ==
    [UESOCL |-> "d", UESOIC |-> "did", UEMQC |-> "d", UEMQDC |-> "dd",
     UEMQDA |-> "dd", UEMQDD |-> "dd", UEMQPC |-> "ddd", UEMQSC |-> "dd",
     UEHTCDC |-> "d", UEHTCRS |-> "dds", UEDGPC |-> "dddd", UEDGP |-> "dd"]

Urcs5 ==
    [UEDGI |-> "s"]

Format == Urcs1 @@ Urcs2 @@ Urcs3 @@ Urcs4 @@ Urcs5

BluetoothRegisters ==
    [uCxBluetoothRegisterConnect |-> "UEBTC",
     uCxBluetoothRegisterDisconnect |-> "UEBTDC",
     uCxBluetoothRegisterBondStatus |-> "UEBTB",
     uCxBluetoothRegisterUserConfirmation |-> "UEBTUC",
     uCxBluetoothRegisterPasskeyEntry |-> "UEBTUPD",
     uCxBluetoothRegisterPasskeyRequest |-> "UEBTUPE",
     uCxBluetoothRegisterPhyUpdate |-> "UEBTPHYU",
     uCxBluetoothRegisterBackgroundDiscovery |-> "UEBTBGD"]

WifiRegisters ==
    [uCxWifiRegisterLinkUp |-> "UEWLU", uCxWifiRegisterLinkDown |-> "UEWLD",
     uCxWifiRegisterStationNetworkUp |-> "UEWSNU",
     uCxWifiRegisterStationNetworkDown |-> "UEWSND",
     uCxWifiRegisterStationRoamingSwitchInitiated |-> "UEWSRSI",
     uCxWifiRegisterStationRoamingSwitchFailed |-> "UEWSRSF",
     uCxWifiRegisterStationRoamingSwitchCompleted |-> "UEWSRSC",
     uCxWifiRegisterApNetworkUp |-> "UEWAPNU",
     uCxWifiRegisterApNetworkDown |-> "UEWAPND",
     uCxWifiRegisterApUp |-> "UEWAPU", uCxWifiRegisterApDown |-> "UEWAPD",
     uCxWifiRegisterApStationAssociated |-> "UEWAPSA",
     uCxWifiRegisterApStationDisassociated |-> "UEWAPSDA"]

SocketRegisters ==
    [uCxSocketRegisterConnect |-> "UESOC",
     uCxSocketRegisterDataAvailable |-> "UESODA",
     uCxSocketRegisterClosed |-> "UESOCL",
     uCxSocketRegisterIncomingConnection |-> "UESOIC"]

HttpRegisters ==
    [uCxHttpRegisterDisconnect |-> "UEHTCDC",
     uCxHttpRegisterRequestStatus |-> "UEHTCRS"]

MqttRegisters ==
    [uCxMqttRegisterConnect |-> "UEMQC",
     uCxMqttRegisterDisconnect |-> "UEMQDC",
     uCxMqttRegisterDataAvailable |-> "UEMQDA",
     uCxMqttRegisterDataDropped |-> "UEMQDD",
     uCxMqttRegisterPublishCompleted |-> "UEMQPC",
     uCxMqttRegisterSubscribeCompleted |-> "UEMQSC"]

GattServerRegisters ==
    [uCxGattServerRegisterNotification |-> "UEBTGCW",
     uCxGattServerRegisterReadAttribute |-> "UEBTGRR",
     uCxGattServerRegisterIndicationAck |-> "UEBTGIC"]

GattClientRegisters ==
    [uCxGattClientRegisterNotification |-> "UEBTGCN",
     uCxGattClientRegisterIndication |-> "UEBTGCI"]

SpsRegisters ==
    [uCxSpsRegisterConnect |-> "UESPSC",
     uCxSpsRegisterDisconnect |-> "UESPSDC",
     uCxSpsRegisterDataAvailable |-> "UESPSDA"]

GeneralRegisters ==
    [uCxGeneralRegisterStartup |-> "STARTUP"]

DiagnosticsRegisters ==
    [uCxDiagnosticsRegisterPingComplete |-> "UEDGPC",
     uCxDiagnosticsRegisterPingResponse |-> "UEDGP",
     uCxDiagnosticsRegisterIperfOutput |-> "UEDGI"]

Registers ==
    BluetoothRegisters
    @@ WifiRegisters
    @@ SocketRegisters
    @@ HttpRegisters
    @@ MqttRegisters
    @@ GattServerRegisters
    @@ GattClientRegisters
    @@ SpsRegisters
    @@ GeneralRegisters
    @@ DiagnosticsRegisters
=============================================================================
