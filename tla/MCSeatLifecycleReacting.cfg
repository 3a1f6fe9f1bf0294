CONSTANTS
  Requests = {"start", "stop", "build", "update"}
  MaxRequests = 2
  MaxOutside = 0
  MaxEvents = 2
SPECIFICATION Spec
PROPERTY NotReactingToItself
