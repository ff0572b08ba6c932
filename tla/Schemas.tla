-------------------------------- MODULE Schemas --------------------------------
(***************************************************************************)
(* The types that travel as JSON, as the generated clients know them: one  *)
(* definition for each, named after the Go type (the refusals, whose Go    *)
(* names are as long as their paths, after the method and the status).     *)
(*                                                                         *)
(* A struct has optional fields, each with a type, and fields it requires. *)
(* Any text is a value of an enumeration until it is validated.            *)
(***************************************************************************)

String == [kind |-> "string"]
Integer == [kind |-> "integer"]
Boolean == [kind |-> "boolean"]
Raw == [kind |-> "raw"]
Enum(values) == [kind |-> "enum", values |-> values]
ArrayOf(type) == [kind |-> "array", elem |-> type]
MapOf(type) == [kind |-> "map", elem |-> type]

StructOf(fields, required) ==
  [kind |-> "struct", fields |-> fields, required |-> required]

Struct(fields) == StructOf(fields, {})

-------------------------------------------------------------------------------
(* The configuration of an algorithm.                                      *)

V1NexusAlgorithmResourcesCustomResources == MapOf(String)

V1ResourceList == MapOf(String)

V1NexusAlgorithmResources == Struct([
    cpuLimit |-> String,
    customResources |-> V1NexusAlgorithmResourcesCustomResources,
    defaultResourceQuota |-> String, limits |-> V1ResourceList,
    memoryLimit |-> String, requests |-> V1ResourceList])

V1NexusAlgorithmContainer == Struct([
    image |-> String, registry |-> String, serviceAccountName |-> String,
    versionTag |-> String])

V1NexusDatadogIntegrationSettings == Struct([
    mountDatadogSocket |-> Boolean])

V1NexusErrorHandlingBehaviour == Struct([
    fatalExitCodes |-> ArrayOf(Integer),
    transientExitCodes |-> ArrayOf(Integer)])

V1PayloadSerializationMode == Enum({"backend", "s3"})

V1NexusAlgorithmPayloadConfiguration == Struct([
    payloadSerializationMode |-> V1PayloadSerializationMode,
    payloadValidFor |-> String])

V1NexusAlgorithmRuntimeEnvironmentAnnotations == MapOf(String)

V1MountPropagationMode == Enum({"None", "HostToContainer", "Bidirectional"})

V1RecursiveReadOnlyMode == Enum({"Disabled", "IfPossible", "Enabled"})

V1VolumeMount == Struct([
    mountPath |-> String, mountPropagation |-> V1MountPropagationMode,
    name |-> String, readOnly |-> Boolean,
    recursiveReadOnly |-> V1RecursiveReadOnlyMode, subPath |-> String,
    subPathExpr |-> String])

V1NexusAlgorithmRuntimeEnvironmentConfigurationFileMounts ==
  MapOf(V1VolumeMount)

V1ConfigMapKeySelector == Struct([
    key |-> String, name |-> String, optional |-> Boolean])

V1ObjectFieldSelector == Struct([
    apiVersion |-> String, fieldPath |-> String])

V1FileKeySelector == Struct([
    key |-> String, optional |-> Boolean, path |-> String,
    volumeName |-> String])

V1ResourceFieldSelector == Struct([
    containerName |-> String, divisor |-> String, resource |-> String])

V1SecretKeySelector == Struct([
    key |-> String, name |-> String, optional |-> Boolean])

V1EnvVarSource == Struct([
    configMapKeyRef |-> V1ConfigMapKeySelector,
    fieldRef |-> V1ObjectFieldSelector, fileKeyRef |-> V1FileKeySelector,
    resourceFieldRef |-> V1ResourceFieldSelector,
    secretKeyRef |-> V1SecretKeySelector])

V1EnvVar == Struct([
    name |-> String, value |-> String, valueFrom |-> V1EnvVarSource])

V1ConfigMapEnvSource == Struct([
    name |-> String, optional |-> Boolean])

V1SecretEnvSource == Struct([
    name |-> String, optional |-> Boolean])

V1EnvFromSource == Struct([
    configMapRef |-> V1ConfigMapEnvSource, prefix |-> String,
    secretRef |-> V1SecretEnvSource])

V1NexusAlgorithmRuntimeEnvironmentSecretFileMounts == MapOf(V1VolumeMount)

V1NexusAlgorithmRuntimeEnvironmentStorageMounts == MapOf(V1VolumeMount)

V1NexusAlgorithmRuntimeEnvironment == Struct([
    annotations |-> V1NexusAlgorithmRuntimeEnvironmentAnnotations,
    configurationFileMounts |-> V1NexusAlgorithmRuntimeEnvironmentConfigurationFileMounts,
    deadlineSeconds |-> Integer, environmentVariables |-> ArrayOf(V1EnvVar),
    mappedEnvironmentVariables |-> ArrayOf(V1EnvFromSource),
    maximumRetries |-> Integer,
    secretFileMounts |-> V1NexusAlgorithmRuntimeEnvironmentSecretFileMounts,
    storageMounts |-> V1NexusAlgorithmRuntimeEnvironmentStorageMounts])

V1NexusAlgorithmWorkgroupRef == Struct([
    group |-> String, kind |-> String, name |-> String])

V1NexusAlgorithmSpec == Struct([
    args |-> ArrayOf(String), command |-> String,
    computeResources |-> V1NexusAlgorithmResources,
    container |-> V1NexusAlgorithmContainer,
    datadogIntegrationSettings |-> V1NexusDatadogIntegrationSettings,
    errorHandlingBehaviour |-> V1NexusErrorHandlingBehaviour,
    payloadConfiguration |-> V1NexusAlgorithmPayloadConfiguration,
    runtimeEnvironment |-> V1NexusAlgorithmRuntimeEnvironment,
    workgroupRef |-> V1NexusAlgorithmWorkgroupRef])

-------------------------------------------------------------------------------
(* The bodies of requests and answers.                                     *)

ModelsTaggedRequestResult == Struct([
    algorithmName |-> String, requestId |-> String, resultUri |-> String,
    runErrorMessage |-> String, status |-> String])

GetResultsOK == ArrayOf(ModelsTaggedRequestResult)

CreateRunAccepted == MapOf(String)

PayloadOK == MapOf(Raw)

ModelsAlgorithmRequestAlgorithmParameters == MapOf(Raw)

ModelsAlgorithmRequestRef == StructOf([
    algorithmName |-> String, requestId |-> String],
    {"algorithmName", "requestId"})

ModelsAlgorithmRequest == StructOf([
    algorithmParameters |-> ModelsAlgorithmRequestAlgorithmParameters,
    customConfiguration |-> V1NexusAlgorithmSpec,
    parentRequest |-> ModelsAlgorithmRequestRef, requestApiVersion |-> String,
    tag |-> String],
    {"algorithmParameters"})

ModelsCancellationRequest == Struct([
    cancellationPolicy |-> String, initiator |-> String, reason |-> String])

ModelsCheckpointedRequest == Struct([
    algorithm |-> String, algorithm_failure_cause |-> String,
    algorithm_failure_details |-> String, api_version |-> String,
    applied_configuration |-> V1NexusAlgorithmSpec,
    configuration_overrides |-> V1NexusAlgorithmSpec, content_hash |-> String,
    id |-> String, job_uid |-> String, last_modified |-> String,
    lifecycle_stage |-> String, parent |-> ModelsAlgorithmRequestRef,
    payload_uri |-> String, received_at |-> String,
    received_by_host |-> String, result_uri |-> String, sent_at |-> String,
    tag |-> String])

ModelsRequestResult == Struct([
    requestId |-> String, resultUri |-> String, runErrorMessage |-> String,
    status |-> String])

ModelsTagUpdateRequest == Struct([
    newTag |-> String])

CompleteRequestAccepted == MapOf(String)

ModelsAlgorithmResult == Struct([
    errorCause |-> String, errorDetails |-> String, resultUri |-> String])

ModelsCheckRunResponse == Struct([
    is_processed |-> Boolean])

(* Refusals and texts: JSON strings.                                      *)

GetBufferedRequestBadRequest == String
GetBufferedRequestNotFound == String
GetBufferedRequestOK == String
GetBufferedRequestUnauthorized == String
GetMetadataBadRequest == String
GetMetadataNotFound == String
GetMetadataUnauthorized == String
GetResultBadRequest == String
GetResultNotFound == String
GetResultUnauthorized == String
GetResultsBadRequest == String
GetResultsUnauthorized == String
CreateRunBadRequest == String
CreateRunInternalServerError == String
CreateRunUnauthorized == String
PayloadBadRequest == String
PayloadForbidden == String
PayloadNotFound == String
PayloadUnauthorized == String
CheckRequestBadRequest == String
CheckRequestNotFound == String
CheckRequestUnauthorized == String
CompleteRequestBadRequest == String
CompleteRequestNotFound == String
CompleteRequestUnauthorized == String
===============================================================================
