CONSTANTS
  agent = agent
  device = device
  updated = updated
  switch = switch
  None = None
  Exporters = {agent, device, updated, switch}
  Protocol <- MCProtocol
  Source <- MCSource
  Template <- MCTemplate
  Layout <- MCLayout
  Records = 2
  MaxInFlight = 2
SPECIFICATION Spec
INVARIANT TypeOK
INVARIANT Faithful
