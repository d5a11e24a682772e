CONSTANTS
  Words <- MCWords
  OtherText = {"/", ".", "127.0.0.1", "0.0.0.0", "192.168.0.2"}
  MaxInputSize = 150
  MaxInteger = 100
  Address <- MCAddress
  PathText = {"a", "b", ".", "api", "auth", "login"}
  MaxPort = 9
  MaxWorkers = 9
  MaxTimeout = 9
  WellWritten <- MCWellWritten
  RequestPaths <- MCRequestPaths
  Tools = {"t1", "t2", "t3"}
  Login <- MCLogin
  Verifier <- MCVerifier
  PasswordOf <- MCPasswordOf
  MaxLoginBytes = 3
  MaxFileBytes = 30
  Nobody = "nobody"
  MaxPathSymbols = 12
  StagePrefix = "stage"
  LoginPath <- MCLoginPath
  LogoutPath <- MCLogoutPath
  MaxRoutes = 18
  PeerClass <- MCPeerClass
  MaxBodySymbols = 30
  MaxOwnerLogin = 3
  MaxPassword = 2
  Extension <- MCExtension
  MediaType <- MCMediaType
  ActiveExtensions = {"html"}
  ActiveTypes = {"text/html"}
  MaxMimeEntries = 2
  Scenarios <- MCScenarios
  ConfigDir <- MCConfigDir
  CredentialPath <- MCCredentialPath
  DefaultName <- MCDefaultName
  MimeFiles <- MCMimeFiles
  MaxRequests = 3
  BodyMeaning <- MCBodyMeaning
  TargetMeaning <- MCTargetMeaning
SPECIFICATION Spec
INVARIANTS
  ParsedIsWritten
  ReleasedWhenSafe
  OwnerIsProvisioned
  

  
  
